---- MODULE Spec2Model ----
(***************************************************************************)
(* A model of leech, a concurrent HTTP download manager (package app).     *)
(*                                                                         *)
(* The module holds one state machine per component of the program; each   *)
(* has its own specification over the shared variable list:                *)
(*   SpecChunks   the chunk planner            getChunks                   *)
(*   SpecDedup    the filename deduplicator    deduplicateFilenames        *)
(*   SpecLimiter  the shared token bucket      rateLimiter, rateLimitedReader *)
(*   SpecDownload the life of one resource     download, downloadChunked,  *)
(*                                             downloadSingle, fetchToFile *)
(*   SpecLimiterLive  the limiter under a clock that never stops           *)
(*   SpecRun      the orchestrator             CLIApplication.Run          *)
(*   SpecRunLive  the orchestrator under a fair scheduler                  *)
(*   SpecRunNames the orchestrator, on batches whose filenames meet        *)
(*   SpecProgress the progress aggregator      progressDisplay             *)
(*   SpecProbe    the prober                   getResourceInformation      *)
(*   SpecFlags    the command line             parseFlags, parseRate       *)
(*   SpecIntake   the URL intake               parsePipe, parseArgs, Run   *)
(* A specification leaves the variables of the other components at their   *)
(* idle values.                                                            *)
(***************************************************************************)
EXTENDS Integers, Sequences, FiniteSets, TLC

VARIABLES
    \* ---- chunk planner: the arguments and the result of the last call
    gcArgs,         \* <<length, chunkSize>> of the last getChunks call, or <<>>
    gcOut,          \* the [][2]int64 it returned (nil is the empty sequence)
    \* ---- filename deduplicator
    ddResources,    \* []*resource: sequence of [url, filename, length]
    ddOutputDir,    \* outputDir: "" (do not read the disk) or "out"
    ddEntries,      \* what os.ReadDir(outputDir) lists: name -> "file" | "dir"
    ddPc,           \* "ready" before the pass, "done" after it
    \* ---- rate limiter (one per process) and its callers
    rate,           \* rateLimiter.rate: bytes per second, 0 = unlimited
    tokens,         \* rateLimiter.tokens
    lastRefill,     \* rateLimiter.lastRefill, in clock ticks
    beyond,         \* the build: what int64(f) is for a float64 beyond int64
    now,            \* time.Now(), in clock ticks since the limiter was made
    admitted,       \* bytes that waitForTokens has deducted so far
    wPc,            \* per caller: "idle", or "loop" inside wait
    wN,             \* per caller: the argument n of its running wait call
    wRemaining,     \* per caller: `remaining` of its running wait call
    waited,         \* per caller: sum of n over the wait calls that returned
    rdPos,          \* per reader: bytes already taken from its source
    rdPending,      \* per reader: bytes read into p, not yet returned by Read
    rdOut,          \* per reader: the bytes Read has handed to its caller
    \* ---- downloads: one task per resource of the batch
    res,            \* per resource: the probed *resource
    content,        \* per resource: the bytes the server holds for its URL
    env,            \* per resource: [answers, faults]: the answers its server
                    \*   may give to a GET, and whether local file operations
                    \*   on its files may fail
    disk,           \* the output directory: path -> [exists, data]
    dPc,            \* download: "off", "ready", "chunked", "single", "send", "done"
    success,        \* download: its local `success`
    result,         \* download: the downloadResult it sent on `done`, if any
    cPc,            \* downloadChunked: "off", "open", "alloc", "wait", "rename", "ret"
    cRet,           \* downloadChunked: the value it returned
    fetchErr,       \* downloadChunked: fetchErr # nil
    cancelled,      \* downloadChunked: chunkCtx is cancelled
    tPc,            \* per chunk task: "off", "start", "copy", "failing", "cancel",
                    \*                 "done", "failed"
    tStatus,        \* per chunk task: the answer to its ranged GET
    tWritten,       \* per chunk task: bytes written through its OffsetWriter
    sPc,            \* downloadSingle: "off", "request", "open", "copy", "rename", "ret"
    sOffset,        \* downloadSingle: `offset`
    sRanged,        \* downloadSingle: the request carried a Range header
    sStatus,        \* downloadSingle: the answer to its GET
    sFound,         \* downloadSingle: the .part as getResumeOffset found it
    sWritten,       \* downloadSingle: bytes copied to the file so far
    sErr,           \* downloadSingle: "none" while it runs, then "nil" or "err"
    fOpen,          \* per resource: open handles on its .part
    ioFault,        \* per resource: a local file operation has failed
    \* ---- the orchestrator
    chunkCount,     \* c.chunkSize, the -chunks flag
    available,      \* bytes available on the file system of the output directory
    head,           \* per URL: the server's answer to the probe's HEAD
    probe,          \* per URL: its probe task is "off", "pending" or "done"
    arrived,        \* the URLs in the order in which Run received their probes'
                    \*   results, until the downloads are launched
    batch,          \* the probed resources, as the sequence of their URLs
    rPc,            \* Run: "off", "mkdir", "probe", "dedup", "gate", "launch",
                    \*      "collect", "returned"
    received,       \* Run: the resources whose result it has received
    failed,         \* Run: how many of those results had ok = false
    remainingSize,  \* Run: `remaining` of the last soft disk-space check
    pd,             \* the progress aggregator: "off", "running" or "stopped"
    runErr,         \* Run: the error it returned, <<>> for nil
    \* ---- the prober and the parsers of the command line, called alone
    call,           \* the arguments of the call, <<>> when there is none
    ret,            \* what the call returned, <<>> while it has not
    \* ---- the progress aggregator (progressDisplay)
    pdEntries,      \* pd.entries: the filenames of the entries, in order
    pdMu,           \* pd.mu: "free" or who holds it
    pdStop,         \* pd.stop is closed
    pdDone,         \* pd.done is closed
    pdTick,         \* a tick waits in ticker.C
    pdLoop,         \* the render loop: "off", "select", "renderTick",
                    \*                  "renderStop", "closing", "exited"
    pdFinish,       \* finish: "idle", "wait", "returned"
    pdAdd,          \* per caller of add: [pc, old], pc one of "idle",
                    \*                  "locked", "grown", "added"
    pdShown,        \* the entries that the last render wrote out
    pdAfter         \* how many renders the loop chose with pd.stop closed

gcVars == <<gcArgs, gcOut>>
ddVars == <<ddResources, ddOutputDir, ddEntries, ddPc>>
bucketVars == <<rate, tokens, lastRefill, beyond>>
rlVars == <<rate, tokens, lastRefill, beyond, now, admitted, wPc, wN, wRemaining,
            waited, rdPos, rdPending, rdOut>>
dlVars == <<res, content, env, disk, dPc, success, result, cPc, cRet, fetchErr,
            cancelled, tPc, tStatus, tWritten, sPc, sOffset, sRanged, sStatus,
            sFound, sWritten, sErr, fOpen, ioFault>>
runVars == <<chunkCount, available, head, probe, arrived, batch, rPc, received,
             failed, remainingSize, pd, runErr>>
callVars == <<call, ret>>
pgVars == <<pdEntries, pdMu, pdStop, pdDone, pdTick, pdLoop, pdFinish, pdAdd,
            pdShown, pdAfter>>
vars == <<gcVars, ddVars, rlVars, dlVars, runVars, callVars, pgVars>>

\* The variables of the other components, which a component's actions leave
\* unchanged.
notGc == <<ddVars, rlVars, dlVars, runVars, callVars, pgVars>>
notDd == <<gcVars, rlVars, dlVars, runVars, callVars, pgVars>>
notRl == <<gcVars, ddVars, dlVars, runVars, callVars, pgVars>>
notDl == <<gcVars, ddVars, rlVars, runVars, callVars, pgVars>>
notRun == <<gcVars, ddVars, rlVars, callVars, pgVars>>
notCall == <<gcVars, ddVars, rlVars, dlVars, runVars, pgVars>>
notPg == <<gcVars, ddVars, rlVars, dlVars, runVars, callVars>>

Min(a, b) == IF a < b THEN a ELSE b
Max(a, b) == IF a > b THEN a ELSE b


(***************************************************************************)
(* Chunk planner (helpers.go)                                              *)
(***************************************************************************)

\* Bounds of the planner's inputs.
MaxLength == 12
MaxChunks == 8

\* Mutant of chunkEndOf: no chunk gets a byte of the remainder.
chunkEndOfNoExtra(start, chunkLen, remainder) == start + chunkLen - 1

\* `end := start + chunkLen - 1`, and `end++` while remainder > 0.
chunkEndOf(start, chunkLen, remainder) ==
    IF remainder > 0 THEN start + chunkLen - 1 + 1 ELSE start + chunkLen - 1

\* The loop `for range chunkSize` of getChunks: i chunks are still to be
\* emitted, the next one starts at start, remainder chunks get one byte more.
RECURSIVE chunkLoop(_, _, _, _)
chunkLoop(i, start, chunkLen, remainder) ==
    IF i = 0 THEN <<>>
    ELSE LET end == chunkEndOf(start, chunkLen, remainder)
             rest == IF remainder > 0 THEN remainder - 1 ELSE remainder
         IN  <<  <<start, end>>  >> \o chunkLoop(i - 1, end + 1, chunkLen, rest)

\* Mutant of getChunks: the clamp of chunkSize to length is missing.
getChunksNoClamp(length, chunkSize) ==
    IF length <= 0 \/ chunkSize <= 0 THEN <<>>
    ELSE chunkLoop(chunkSize, 0, length \div chunkSize, length % chunkSize)

\* getChunks splits a byte range into N equal-ish chunks.
getChunks(length, chunkSize) ==
    IF length <= 0 \/ chunkSize <= 0 THEN <<>>
    ELSE LET n == IF chunkSize > length THEN length ELSE chunkSize
         IN  chunkLoop(n, 0, length \div n, length % n)

\* The number of bytes of a chunk [start, end]: `end - start + 1`.
chunkSizeOf(c) == c[2] - c[1] + 1

gcIdle == gcArgs = <<>> /\ gcOut = <<>>

\* A call of getChunks with any arguments within the bounds.
CallGetChunks ==
    \E length \in -1 .. MaxLength, chunkSize \in -1 .. MaxChunks :
        /\ gcArgs' = <<length, chunkSize>>
        /\ gcOut' = getChunks(length, chunkSize)
        /\ UNCHANGED notGc

(***************************************************************************)
(* Filename deduplicator (helpers.go)                                      *)
(*                                                                         *)
(* A filename is a sequence of one-character strings, so that the          *)
(* extension split and the "%s_%d%s" formatting are computed as the code   *)
(* computes them.                                                          *)
(***************************************************************************)

\* Bound: the longest resource list of a pass.
MaxResources == 3

\* The filenames the probed resources may carry, and the names the output
\* directory may hold.
InputNames ==
    { <<"a">>, <<"a", "_", "1">>, <<"a", "_", "2">>,
      <<"a", ".", "z">>, <<"a", "_", "1", ".", "z">>, <<".", "z">> }
DiskNames ==
    { <<"a">>, <<"a", "_", "1">>, <<"a", ".", "z">>, <<"a", "_", "1", ".", "z">> }

\* filepath.Ext: the suffix beginning at the final dot, empty without a dot.
filepathExt(name) ==
    LET dots == {i \in 1 .. Len(name) : name[i] = "."}
    IN  IF dots = {} THEN <<>>
        ELSE LET last == CHOOSE i \in dots : \A j \in dots : j <= i
             IN  SubSeq(name, last, Len(name))

\* strings.TrimSuffix(name, ext) for a suffix ext of name.
trimSuffix(name, ext) == SubSeq(name, 1, Len(name) - Len(ext))

Digits == <<"0", "1", "2", "3", "4", "5", "6", "7", "8", "9">>

\* fmt's %d of a counter >= 1.
RECURSIVE itoa(_)
itoa(k) ==
    IF k < 10 THEN <<Digits[k + 1]>>
    ELSE itoa(k \div 10) \o <<Digits[(k % 10) + 1]>>

\* Mutant of candidateName: the extension is left off.
candidateNameNoExt(base, counter, ext) == base \o <<"_">> \o itoa(counter)

\* fmt.Sprintf("%s_%d%s", base, counter, ext)
candidateName(base, counter, ext) == base \o <<"_">> \o itoa(counter) \o ext

\* The inner `for` of deduplicateFilenames: the first candidate, counting up
\* from counter, that is not used.
RECURSIVE firstFree(_, _, _, _)
firstFree(base, ext, counter, used) ==
    IF candidateName(base, counter, ext) \notin used
    THEN candidateName(base, counter, ext)
    ELSE firstFree(base, ext, counter + 1, used)

\* Mutant of seedUsed: the directory is never read.
seedUsedNoDisk(outputDir, entries) == {}

\* The seeding of `used` from the output directory.
seedUsed(outputDir, entries) ==
    IF outputDir # ""
    THEN {e \in DOMAIN entries : entries[e] # "dir"}
    ELSE {}

\* The walk `for _, r := range resources`, from position i with the names
\* reserved so far.
RECURSIVE dedupWalk(_, _, _)
dedupWalk(resources, i, used) ==
    IF i > Len(resources) THEN resources
    ELSE LET name == resources[i].filename IN
         IF name \notin used
         THEN dedupWalk(resources, i + 1, used \cup {name})
         ELSE LET ext == filepathExt(name)
                  base == trimSuffix(name, ext)
                  cand == firstFree(base, ext, 1, used)
              IN  dedupWalk([resources EXCEPT ![i].filename = cand],
                            i + 1, used \cup {cand})

\* deduplicateFilenames renames duplicate filenames by appending a counter;
\* it also checks for files that already exist in outputDir.
deduplicateFilenames(resources, outputDir, entries) ==
    dedupWalk(resources, 1, seedUsed(outputDir, entries))

ddIdle ==
    /\ ddResources = <<>>
    /\ ddOutputDir = ""
    /\ ddEntries = <<>>
    /\ ddPc = "idle"

\* The inputs of a pass: any list of resources and any directory content.
\* With outputDir = "" there is no directory to list.
ddInit ==
    /\ \E n \in 0 .. MaxResources : \E names \in [1 .. n -> InputNames] :
          ddResources = [i \in 1 .. n |->
                            [url |-> i, filename |-> names[i], length |-> i]]
    /\ \E dir \in {"", "out"} :
          /\ ddOutputDir = dir
          /\ \E S \in SUBSET DiskNames :
                /\ dir = "" => S = {}
                /\ \E e \in [S -> {"file", "dir"}] : ddEntries = e
    /\ ddPc = "ready"

Deduplicate ==
    /\ ddPc = "ready"
    /\ ddResources' = deduplicateFilenames(ddResources, ddOutputDir, ddEntries)
    /\ ddPc' = "done"
    /\ UNCHANGED <<ddOutputDir, ddEntries, notDd>>

(***************************************************************************)
(* Rate limiter: token bucket and rate-limited reader                      *)
(*                                                                         *)
(* Time is counted in clock ticks, TicksPerSec to the second.  Go's int64  *)
(* is modelled as a two's-complement integer of IntBits bits, so that the  *)
(* wrap-around of `rl.tokens += newTokens` is within reach of the search;  *)
(* the float64 product elapsed.Seconds() * float64(rate) is taken exactly. *)
(***************************************************************************)

IntBits == 6
TicksPerSec == 2
MaxTime == 3        \* the clock stops after MaxTime ticks
MaxWaitN == 3       \* the largest n of a wait call
MaxAdmit == 5       \* callers ask for at most MaxAdmit bytes altogether

MaxInt == 2 ^ (IntBits - 1) - 1
MinInt == -(2 ^ (IntBits - 1))

\* int64 arithmetic wraps around.
wrap(x) == ((x - MinInt) % (2 ^ IntBits)) + MinInt

\* The rates a limiter is built with: unlimited, less than one token per
\* tick, a fractional number of tokens per tick, and a rate above MaxInt / 2.
Rates == {0, 1, 3, 2 ^ (IntBits - 2)}

Callers == {"c1", "c2"}

\* The bytes of every reader's source.
Source == <<"s1", "s2", "s3">>

\* newRateLimiter(bytesPerSecond) at time t.
newRateLimiter(bytesPerSecond, t) ==
    [rate |-> bytesPerSecond, tokens |-> bytesPerSecond, lastRefill |-> t]

\* int64(elapsed.Seconds() * float64(rl.rate)).  A product beyond int64 has an
\* implementation-dependent conversion: the smallest int64 on amd64, the
\* largest on arm64.
newTokensOf(elapsed, r, outOfRange) ==
    LET f == (elapsed * r) \div TicksPerSec
    IN  IF f <= MaxInt THEN f ELSE outOfRange

\* Mutant of refillTime: lastRefill is never moved.
refillTimeStuck(newTokens, t, last) == last

\* Mutant of refillTime: lastRefill moves at every step.
refillTimeAlways(newTokens, t, last) == t

\* lastRefill after the refill step of waitForTokens.
refillTime(newTokens, t, last) == IF newTokens > 0 THEN t ELSE last

\* tokens after the refill step of waitForTokens.
refillTokens(newTokens, tok, r) ==
    IF newTokens > 0
    THEN LET sum == wrap(tok + newTokens)
         IN  IF sum > r THEN r ELSE sum
    ELSE tok

\* Mutant of waitIsNoop: the unlimited case is not short-circuited.
waitIsNoopNever(r) == FALSE

\* `if rl.rate == 0 { return }` of wait.
waitIsNoop(r) == r = 0

\* Mutant of requestOf: wait asks for all of n at once.
requestOfWhole(remaining, r) == remaining

\* `request` of one iteration of wait's loop.
requestOf(remaining, r) == IF remaining > r THEN r ELSE remaining

\* Mutant of readCap: the buffer is left as the caller gave it.
readCapNone(plen, r) == plen

\* Read's cap of the caller's buffer: len(p) after `p = p[:r.limiter.rate]`.
readCap(plen, r) == IF r > 0 /\ plen > r THEN r ELSE plen

\* The bytes callers have asked wait for so far, in calls that returned and
\* in calls that are running: no call is made beyond MaxAdmit bytes.
askedBy(c) == waited[c] + (IF wPc[c] = "loop" THEN wN[c] ELSE 0)
asked == askedBy("c1") + askedBy("c2")

rlIdle ==
    /\ rate = 0 /\ tokens = 0 /\ lastRefill = 0 /\ now = 0 /\ admitted = 0
    /\ beyond = MaxInt
    /\ wPc = [c \in Callers |-> "off"]
    /\ wN = [c \in Callers |-> 0]
    /\ wRemaining = [c \in Callers |-> 0]
    /\ waited = [c \in Callers |-> 0]
    /\ rdPos = [c \in Callers |-> 0]
    /\ rdPending = [c \in Callers |-> 0]
    /\ rdOut = [c \in Callers |-> <<>>]

\* The builds that can be told apart while no more than `elapsed` ticks
\* pass between two refills: the conversion is reached only by a product
\* beyond int64.
builds(elapsed) ==
    IF (elapsed * rate) \div TicksPerSec > MaxInt
    THEN {MinInt, MaxInt} ELSE {MaxInt}

rlStart ==
    /\ now = 0
    /\ \E r \in Rates :
          LET rl == newRateLimiter(r, 0)
          IN  rate = rl.rate /\ tokens = rl.tokens /\ lastRefill = rl.lastRefill
    /\ admitted = 0
    /\ wPc = [c \in Callers |-> "idle"]
    /\ wN = [c \in Callers |-> 0]
    /\ wRemaining = [c \in Callers |-> 0]
    /\ waited = [c \in Callers |-> 0]
    /\ rdPos = [c \in Callers |-> 0]
    /\ rdPending = [c \in Callers |-> 0]
    /\ rdOut = [c \in Callers |-> <<>>]

rlInit == rlStart /\ beyond \in builds(MaxTime)

\* Time passes.
Tick ==
    /\ now < MaxTime
    /\ now' = now + 1
    /\ UNCHANGED <<notRl, bucketVars, admitted, wPc, wN, wRemaining, waited,
                   rdPos, rdPending, rdOut>>

\* Time passes without end.  waitForTokens reads the clock only as
\* now.Sub(rl.lastRefill), so the clock is kept relative to the present:
\* lastRefill recedes instead of now advancing.  From two seconds on the
\* elapsed time need not be told apart: every product with a rate of a
\* token per second or more then fills the bucket or is beyond int64.
MaxElapsed == 2 * TicksPerSec
TickLive ==
    /\ now - lastRefill < MaxElapsed
    /\ lastRefill' = lastRefill - 1
    /\ UNCHANGED <<notRl, rate, tokens, beyond, now, admitted, wPc, wN,
                   wRemaining, waited, rdPos, rdPending, rdOut>>

rlInitLive == rlStart /\ beyond \in builds(MaxElapsed)

\* The return of wait(n) to caller c; a Read that was waiting hands the
\* pending bytes, the last `pending` bytes before pos of its source, to its
\* caller.
waitReturn(c, n, pos, pending) ==
    /\ wPc' = [wPc EXCEPT ![c] = "idle"]
    /\ wRemaining' = [wRemaining EXCEPT ![c] = 0]
    /\ waited' = [waited EXCEPT ![c] = @ + n]
    /\ rdPending' = [rdPending EXCEPT ![c] = 0]
    /\ rdOut' = [rdOut EXCEPT ![c] = @ \o SubSeq(Source, pos - pending + 1, pos)]

\* The entry of wait(n): return at once when unlimited or when n <= 0,
\* otherwise enter the loop with remaining = n.
waitEnter(c, n, pos, pending) ==
    /\ wN' = [wN EXCEPT ![c] = n]
    /\ IF waitIsNoop(rate) \/ n <= 0
       THEN waitReturn(c, n, pos, pending)
       ELSE /\ wPc' = [wPc EXCEPT ![c] = "loop"]
            /\ wRemaining' = [wRemaining EXCEPT ![c] = n]
            /\ rdPending' = [rdPending EXCEPT ![c] = pending]
            /\ UNCHANGED <<waited, rdOut>>

\* A caller calls rl.wait(n) directly.
WaitCall(c, n) ==
    /\ wPc[c] = "idle"
    /\ asked + n <= MaxAdmit
    /\ waitEnter(c, n, rdPos[c], 0)
    /\ UNCHANGED <<notRl, bucketVars, now, admitted, rdPos>>

\* rateLimitedReader.Read(p) with len(p) = plen: the source returns n bytes
\* of the capped buffer, and wait(n) is called when n > 0.
Read(c, plen) ==
    /\ wPc[c] = "idle"
    /\ \E n \in 0 .. Min(readCap(plen, rate), Len(Source) - rdPos[c]) :
          /\ asked + n <= MaxAdmit
          /\ rdPos' = [rdPos EXCEPT ![c] = @ + n]
          /\ IF n > 0
             THEN waitEnter(c, n, rdPos[c] + n, n)
             ELSE UNCHANGED <<wPc, wN, wRemaining, waited, rdPending, rdOut>>
    /\ UNCHANGED <<notRl, bucketVars, now, admitted>>

\* One iteration of waitForTokens(request) under the mutex: refill, then
\* either deduct the request and go on with wait's loop, or unlock and sleep.
WaitForTokens(c) ==
    /\ wPc[c] = "loop"
    /\ LET request == requestOf(wRemaining[c], rate) IN
       LET newTokens == newTokensOf(now - lastRefill, rate, beyond) IN
          LET tok == refillTokens(newTokens, tokens, rate) IN
          /\ lastRefill' = refillTime(newTokens, now, lastRefill)
          /\ IF tok >= request
             THEN /\ tokens' = wrap(tok - request)
                  /\ admitted' = admitted + request
                  /\ IF wRemaining[c] - request > 0
                     THEN /\ wRemaining' = [wRemaining EXCEPT ![c] = @ - request]
                          /\ UNCHANGED <<wPc, waited, rdPending, rdOut>>
                     ELSE waitReturn(c, wN[c], rdPos[c], rdPending[c])
             ELSE /\ tokens' = tok
                  /\ UNCHANGED <<admitted, wPc, wRemaining, waited, rdPending,
                                 rdOut>>
    /\ UNCHANGED <<notRl, rate, beyond, now, wN, rdPos>>

(***************************************************************************)
(* Downloads (download.go, diskspace_unix.go)                              *)
(*                                                                         *)
(* A file is [exists, data]; data is a sequence of bytes.  The server's    *)
(* byte at offset i - 1 is the number i, a byte of an older .part is       *)
(* negative, a byte a truncate or a write past the end filled in is 0.     *)
(* The server answers a GET with one of                                    *)
(*   "206"       the requested range of its bytes                          *)
(*   "206short"  the requested range less its last byte                    *)
(*   "200"       all its bytes, whatever the Range header                  *)
(*   "reject"    a status other than 200 and 206                           *)
(*   "neterr"    no answer: c.Client.Do returns an error                   *)
(*   "cancelled" no answer: the request's context was cancelled            *)
(* and a body may break off with a read error after any byte.  The rate    *)
(* limiter only delays reads and is left out of a download's steps.        *)
(***************************************************************************)

MaxBody == 3            \* the longest server body
ChunkCounts == {1, 2}   \* the configured chunk counts (c.chunkSize, -chunks)

\* The URLs of a batch, in input order.
URLs == <<"r1", "r2">>
Res == {URLs[i] : i \in DOMAIN URLs}

\* The filenames a probe may give a resource, and every name a file of the
\* output directory may have: those names, what the deduplicator may make of
\* them, and the .part of each.
ProbeNames == { <<"a">>, <<"b">> }
partSuffix == <<".", "p", "a", "r", "t">>
FinalNames ==
    ProbeNames \cup {candidateName(n, k, <<>>) : n \in ProbeNames, k \in 1 .. 2}
AllPaths ==
    FinalNames \cup {n \o partSuffix : n \in FinalNames}
               \cup {n \o partSuffix \o partSuffix : n \in ProbeNames}

NoFile == [exists |-> FALSE, data |-> <<>>]
File(d) == [exists |-> TRUE, data |-> d]

serverBytes(n) == [i \in 1 .. n |-> i]
oldBytes(n) == [i \in 1 .. n |-> -i]
zeros(n) == [i \in 1 .. n |-> 0]

\* outputPath and partPath of download.
outputPath(r) == res[r].filename

\* Mutant of partPath: the download is written at the final path.
partPathIsFinal(r) == outputPath(r)

partPath(r) == outputPath(r) \o partSuffix

\* `r.chunks = getChunks(...)` of getResourceInformation: only when the HEAD
\* answer carries Accept-Ranges: bytes and a positive Content-Length.
probeChunks(length, acceptRanges, chunkSize) ==
    IF acceptRanges /\ length > 0 THEN getChunks(length, chunkSize) ELSE <<>>

\* getResumeOffset returns the size of the .part file, or 0 if it doesn't
\* exist.
getResumeOffset(f) == IF f.exists THEN Len(f.data) ELSE 0

\* f.Truncate(n)
truncateTo(d, n) == IF n <= Len(d) THEN SubSeq(d, 1, n) ELSE d \o zeros(n - Len(d))

\* f.WriteAt of one byte b at offset off.
writeAt(d, off, b) ==
    IF off < Len(d) THEN [d EXCEPT ![off + 1] = b]
    ELSE d \o zeros(off - Len(d)) \o <<b>>

\* The body of an answer of kind status to a GET for the bytes start..end of
\* data (end = Len(data) - 1 for an open range `bytes=start-`).
bodyOf(status, data, start, end) ==
    CASE status = "206" -> SubSeq(data, start + 1, end + 1)
      [] status = "206short" -> SubSeq(data, start + 1, end)
      [] status = "200" -> data
      [] OTHER -> <<>>

\* Every answer a server may give to a GET.
Answers == {"206", "206short", "200", "reject", "neterr"}

\* Mutant of statusAccepted: every answer is taken.
statusAcceptedAll(status) == TRUE

\* `resp.StatusCode != 200 && resp.StatusCode != 206` is an error.
statusAccepted(status) == status \in {"200", "206", "206short"}

Tasks(r) == 1 .. Len(res[r].chunks)

\* Mutant of chunkStart: every chunk is written from offset 0.
chunkStartZero(r, i) == 0

\* fetchToFile: `start, end := chunk[0], chunk[1]`; start is the offset of
\* io.NewOffsetWriter(f, start).
chunkStart(r, i) == res[r].chunks[i][1]
chunkEnd(r, i) == res[r].chunks[i][2]

\* The value of a resource that is not (or not yet) part of the batch.
noResource == [url |-> "", filename |-> <<>>, length |-> 0, chunks |-> <<>>]

dlIdle ==
    /\ res = [r \in Res |-> noResource]
    /\ content = [r \in Res |-> <<>>]
    /\ env = [r \in Res |-> [answers |-> {}, faults |-> FALSE]]
    /\ disk = [p \in AllPaths |-> NoFile]
    /\ dPc = [r \in Res |-> "off"]
    /\ success = [r \in Res |-> FALSE]
    /\ result = [r \in Res |-> <<>>]
    /\ cPc = [r \in Res |-> "off"]
    /\ cRet = [r \in Res |-> FALSE]
    /\ fetchErr = [r \in Res |-> FALSE]
    /\ cancelled = [r \in Res |-> FALSE]
    /\ tPc = [r \in Res |-> <<>>]
    /\ tStatus = [r \in Res |-> <<>>]
    /\ tWritten = [r \in Res |-> <<>>]
    /\ sPc = [r \in Res |-> "off"]
    /\ sOffset = [r \in Res |-> 0]
    /\ sRanged = [r \in Res |-> FALSE]
    /\ sStatus = [r \in Res |-> "none"]
    /\ sFound = [r \in Res |-> NoFile]
    /\ sWritten = [r \in Res |-> 0]
    /\ sErr = [r \in Res |-> "none"]
    /\ fOpen = [r \in Res |-> 0]
    /\ ioFault = [r \in Res |-> FALSE]

\* A resource as getResourceInformation builds it from a HEAD answer with
\* Content-Length n (or none: length -1).
probed(r, name, n, known, acceptRanges, chunkSize) ==
    LET length == IF known THEN n ELSE -1
    IN  [url |-> r, filename |-> name, length |-> length,
         chunks |-> probeChunks(length, acceptRanges, chunkSize)]

\* One resource r1 ready to be downloaded: any server body, any HEAD answer,
\* any chunk count, and an output directory that may hold an older .part
\* and an older file of the same name.
dlInit ==
    /\ \E n \in 0 .. MaxBody, known, acceptRanges \in BOOLEAN,
          chunkSize \in ChunkCounts :
          /\ content = [r \in Res |-> IF r = "r1" THEN serverBytes(n) ELSE <<>>]
          /\ res = [r \in Res |->
                      IF r = "r1"
                      THEN probed(r, <<"a">>, n, known, acceptRanges, chunkSize)
                      ELSE noResource]
    /\ env = [r \in Res |-> [answers |-> Answers, faults |-> TRUE]]
    /\ \E part \in {NoFile} \cup {File(oldBytes(k)) : k \in 0 .. MaxBody + 1},
          final \in {NoFile, File(oldBytes(1))} :
          disk = [p \in AllPaths |->
                     IF p = <<"a">> \o partSuffix THEN part
                     ELSE IF p = <<"a">> THEN final ELSE NoFile]
    /\ dPc = [r \in Res |-> IF r = "r1" THEN "ready" ELSE "off"]
    /\ success = [r \in Res |-> FALSE]
    /\ result = [r \in Res |-> <<>>]
    /\ cPc = [r \in Res |-> "off"]
    /\ cRet = [r \in Res |-> FALSE]
    /\ fetchErr = [r \in Res |-> FALSE]
    /\ cancelled = [r \in Res |-> FALSE]
    /\ tPc = [r \in Res |-> [i \in Tasks(r) |-> "off"]]
    /\ tStatus = [r \in Res |-> [i \in Tasks(r) |-> "none"]]
    /\ tWritten = [r \in Res |-> [i \in Tasks(r) |-> 0]]
    /\ sPc = [r \in Res |-> "off"]
    /\ sOffset = [r \in Res |-> 0]
    /\ sRanged = [r \in Res |-> FALSE]
    /\ sStatus = [r \in Res |-> "none"]
    /\ sFound = [r \in Res |-> NoFile]
    /\ sWritten = [r \in Res |-> 0]
    /\ sErr = [r \in Res |-> "none"]
    /\ fOpen = [r \in Res |-> 0]
    /\ ioFault = [r \in Res |-> FALSE]

chunkedVars == <<cPc, cRet, fetchErr, cancelled>>
taskVars == <<tPc, tStatus, tWritten>>
singleVars == <<sPc, sOffset, sRanged, sStatus, sFound, sWritten, sErr>>
inputVars == <<res, content, env>>

\* download: `if r.chunks != nil` chooses the chunked or the single-stream
\* downloader.
DownloadStart(r) ==
    /\ dPc[r] = "ready"
    /\ IF res[r].chunks # <<>>
       THEN /\ dPc' = [dPc EXCEPT ![r] = "chunked"]
            /\ cPc' = [cPc EXCEPT ![r] = "open"]
            /\ UNCHANGED sPc
       ELSE /\ dPc' = [dPc EXCEPT ![r] = "single"]
            /\ sPc' = [sPc EXCEPT ![r] = "request"]
            /\ UNCHANGED cPc
    /\ UNCHANGED <<notDl, inputVars, disk, success, result, cRet, fetchErr,
                   cancelled, taskVars, sOffset, sRanged, sStatus, sFound,
                   sWritten, sErr, fOpen, ioFault>>

\* Mutant of closeFile: the handle stays open.
closeFileNot(handles) == handles

\* f.Close(), called or deferred: one open handle of the .part fewer.
closeFile(handles) == handles - 1

\* downloadChunked: os.OpenFile(partPath, O_CREATE|O_WRONLY), which may fail.
ChunkedOpen(r) ==
    /\ cPc[r] = "open"
    /\ \/ /\ disk' = [disk EXCEPT ![partPath(r)] =
                          IF @.exists THEN @ ELSE File(<<>>)]
          /\ fOpen' = [fOpen EXCEPT ![r] = @ + 1]
          /\ cPc' = [cPc EXCEPT ![r] = "alloc"]
          /\ UNCHANGED <<cRet, ioFault>>
       \/ /\ env[r].faults
          /\ ioFault' = [ioFault EXCEPT ![r] = TRUE]
          /\ cRet' = [cRet EXCEPT ![r] = FALSE]
          /\ cPc' = [cPc EXCEPT ![r] = "ret"]
          /\ UNCHANGED <<disk, fOpen>>
    /\ UNCHANGED <<notDl, inputVars, dPc, success, result, fetchErr, cancelled,
                   taskVars, singleVars>>

\* downloadChunked: truncate the .part to r.length unless it has that size
\* (which may fail: close and return false), then start one task per chunk.
ChunkedAlloc(r) ==
    /\ cPc[r] = "alloc"
    /\ \/ /\ disk' = [disk EXCEPT ![partPath(r)].data =
                          IF Len(@) # res[r].length
                          THEN truncateTo(@, res[r].length) ELSE @]
          /\ tPc' = [tPc EXCEPT ![r] = [i \in Tasks(r) |-> "start"]]
          /\ cPc' = [cPc EXCEPT ![r] = "wait"]
          /\ UNCHANGED <<cRet, fOpen, ioFault>>
       \/ /\ env[r].faults
          /\ Len(disk[partPath(r)].data) # res[r].length
          /\ ioFault' = [ioFault EXCEPT ![r] = TRUE]
          /\ fOpen' = [fOpen EXCEPT ![r] = closeFile(@)]
          /\ cRet' = [cRet EXCEPT ![r] = FALSE]
          /\ cPc' = [cPc EXCEPT ![r] = "ret"]
          /\ UNCHANGED <<disk, tPc>>
    /\ UNCHANGED <<notDl, inputVars, dPc, success, result, fetchErr, cancelled,
                   tStatus, tWritten, singleVars>>

\* Mutant of sizeMismatch: only a body that is too short is refused.
sizeMismatchShort(written, chunkBytes) == written < chunkBytes

\* `if written != chunkBytes` of fetchToFile.
sizeMismatch(written, chunkBytes) == written # chunkBytes

\* fetchToFile: the ranged GET of chunk i and the check of its status.
TaskRequest(r, i) ==
    /\ tPc[r][i] = "start"
    /\ \E status \in env[r].answers \cup {"cancelled"} :
          /\ status = "cancelled" => cancelled[r]
          /\ tStatus' = [tStatus EXCEPT ![r][i] = status]
          /\ tPc' = [tPc EXCEPT ![r][i] =
                        IF statusAccepted(status) THEN "copy" ELSE "failing"]
    /\ UNCHANGED <<notDl, inputVars, disk, dPc, success, result, chunkedVars,
                   tWritten, singleVars, fOpen, ioFault>>

\* fetchToFile: one step of io.Copy(writer, reader) through the OffsetWriter
\* at `start`: the next byte of the body is written at start + written, or
\* the read fails (network, cancellation), or the write fails; at the end of
\* the body the byte count is compared with the chunk's size.
TaskCopy(r, i) ==
    /\ tPc[r][i] = "copy"
    /\ LET body == bodyOf(tStatus[r][i], content[r], chunkStart(r, i), chunkEnd(r, i))
           written == tWritten[r][i]
       IN  IF written < Len(body)
           THEN \/ /\ disk' = [disk EXCEPT ![partPath(r)].data =
                                   writeAt(@, chunkStart(r, i) + written,
                                           body[written + 1])]
                   /\ tWritten' = [tWritten EXCEPT ![r][i] = @ + 1]
                   /\ UNCHANGED <<tPc, ioFault>>
                \/ /\ "neterr" \in env[r].answers \/ cancelled[r]
                   /\ tPc' = [tPc EXCEPT ![r][i] = "failing"]
                   /\ UNCHANGED <<disk, tWritten, ioFault>>
                \/ /\ env[r].faults
                   /\ tPc' = [tPc EXCEPT ![r][i] = "failing"]
                   /\ ioFault' = [ioFault EXCEPT ![r] = TRUE]
                   /\ UNCHANGED <<disk, tWritten>>
           ELSE /\ tPc' = [tPc EXCEPT ![r][i] =
                              IF sizeMismatch(written,
                                              chunkSizeOf(res[r].chunks[i]))
                              THEN "failing" ELSE "done"]
                /\ UNCHANGED <<disk, tWritten, ioFault>>
    /\ UNCHANGED <<notDl, inputVars, dPc, success, result, chunkedVars, tStatus,
                   singleVars, fOpen>>

\* Mutant of recordErr: the task's error is not stored.
recordErrLost(recorded) == recorded

\* `fetchErr = err` with err # nil: an error is recorded, whatever was.
recordErr(recorded) == TRUE

\* The chunk task's error path: `fetchErr = err` under errMu.
TaskRecordErr(r, i) ==
    /\ tPc[r][i] = "failing"
    /\ fetchErr' = [fetchErr EXCEPT ![r] = recordErr(@)]
    /\ tPc' = [tPc EXCEPT ![r][i] = "cancel"]
    /\ UNCHANGED <<notDl, inputVars, disk, dPc, success, result, cPc, cRet,
                   cancelled, tStatus, tWritten, singleVars, fOpen, ioFault>>

\* Mutant of chunkCancel: the cancellation reaches the context that all the
\* resources of the batch share.
chunkCancelAll(c, r) == [u \in DOMAIN c |-> TRUE]

\* `chunkCtx, chunkCancel := context.WithCancel(ctx)` is made by each call of
\* downloadChunked: chunkCancel() cancels the chunk tasks of that call only.
chunkCancel(c, r) == [c EXCEPT ![r] = TRUE]

\* The chunk task's error path: chunkCancel(), and the task returns.
TaskCancel(r, i) ==
    /\ tPc[r][i] = "cancel"
    /\ cancelled' = chunkCancel(cancelled, r)
    /\ tPc' = [tPc EXCEPT ![r][i] = "failed"]
    /\ UNCHANGED <<notDl, inputVars, disk, dPc, success, result, cPc, cRet,
                   fetchErr, tStatus, tWritten, singleVars, fOpen, ioFault>>

\* Mutant of wgWait: the wait never ends.
wgWaitNever(pcs) == FALSE

\* Mutant of wgWait: the wait ends with the first task that returns.
wgWaitFirst(pcs) == \E i \in DOMAIN pcs : pcs[i] \in {"done", "failed"}

\* wg.Wait() returns once every task started with wg.Go has returned.
wgWait(pcs) == \A i \in DOMAIN pcs : pcs[i] \in {"done", "failed"}

\* downloadChunked: wg.Wait() returns once every task has returned; the
\* file is closed; a recorded error makes it return false.
ChunkedWait(r) ==
    /\ cPc[r] = "wait"
    /\ wgWait(tPc[r])
    /\ fOpen' = [fOpen EXCEPT ![r] = closeFile(@)]
    /\ IF fetchErr[r]
       THEN /\ cRet' = [cRet EXCEPT ![r] = FALSE]
            /\ cPc' = [cPc EXCEPT ![r] = "ret"]
       ELSE /\ cPc' = [cPc EXCEPT ![r] = "rename"]
            /\ UNCHANGED cRet
    /\ UNCHANGED <<notDl, inputVars, disk, dPc, success, result, fetchErr,
                   cancelled, taskVars, singleVars, ioFault>>

\* finalizePart renames the .part file to the final path; os.Rename may fail.
finalizePart(d, part, final) ==
    [d EXCEPT ![final] = d[part], ![part] = NoFile]

\* downloadChunked: finalizePart and the return value.
ChunkedRename(r) ==
    /\ cPc[r] = "rename"
    /\ \/ /\ disk' = finalizePart(disk, partPath(r), outputPath(r))
          /\ cRet' = [cRet EXCEPT ![r] = TRUE]
          /\ UNCHANGED ioFault
       \/ /\ env[r].faults
          /\ ioFault' = [ioFault EXCEPT ![r] = TRUE]
          /\ cRet' = [cRet EXCEPT ![r] = FALSE]
          /\ UNCHANGED disk
    /\ cPc' = [cPc EXCEPT ![r] = "ret"]
    /\ UNCHANGED <<notDl, inputVars, dPc, success, result, fetchErr, cancelled,
                   taskVars, singleVars, fOpen>>

\* Mutant of removePart: the .part of the failed chunked attempt is kept.
removePartKept(f) == f

\* `_ = os.Remove(partPath)` when it succeeds.
removePart(f) == NoFile

\* download: after downloadChunked returned. On false the .part is removed
\* (os.Remove's error is ignored) and the single-stream fallback starts.
DownloadAfterChunked(r) ==
    /\ dPc[r] = "chunked" /\ cPc[r] = "ret"
    /\ IF cRet[r]
       THEN /\ success' = [success EXCEPT ![r] = TRUE]
            /\ dPc' = [dPc EXCEPT ![r] = "send"]
            /\ UNCHANGED <<disk, sPc, ioFault>>
       ELSE /\ \/ /\ disk' = [disk EXCEPT ![partPath(r)] = removePart(@)]
                  /\ UNCHANGED ioFault
               \/ /\ env[r].faults
                  /\ disk[partPath(r)].exists
                  /\ ioFault' = [ioFault EXCEPT ![r] = TRUE]
                  /\ UNCHANGED disk
            /\ dPc' = [dPc EXCEPT ![r] = "single"]
            /\ sPc' = [sPc EXCEPT ![r] = "request"]
            /\ UNCHANGED success
    /\ UNCHANGED <<notDl, inputVars, result, chunkedVars, taskVars, sOffset,
                   sRanged, sStatus, sFound, sWritten, sErr, fOpen>>

\* Mutant of resumeOffset: the offset is kept whatever the answer.
resumeOffsetKept(offset, status) == offset

\* downloadSingle: `if offset > 0 && resp.StatusCode != 206 { offset = 0 }`.
resumeOffset(offset, status) ==
    IF offset > 0 /\ status \notin {"206", "206short"} THEN 0 ELSE offset

\* Mutant of openedPart: the open always truncates.
openedPartTruncated(f, offset) == File(<<>>)

\* os.OpenFile(partPath, O_CREATE|O_WRONLY plus O_APPEND if offset > 0, else
\* O_TRUNC): the file the open leaves on disk.
openedPart(f, offset) ==
    IF offset > 0 /\ f.exists THEN f ELSE File(<<>>)

\* downloadSingle: getResumeOffset, the GET (with `Range: bytes=<offset>-`
\* when offset > 0), the answer and its status check.  A server answers 206
\* only to a request that carries a Range header.
SingleRequest(r) ==
    /\ sPc[r] = "request"
    /\ LET offset == getResumeOffset(disk[partPath(r)])
       IN  \E status \in env[r].answers :
              /\ status \in {"206", "206short"} => offset > 0
              /\ sFound' = [sFound EXCEPT ![r] = disk[partPath(r)]]
              /\ sRanged' = [sRanged EXCEPT ![r] = offset > 0]
              /\ sStatus' = [sStatus EXCEPT ![r] = status]
              /\ sWritten' = [sWritten EXCEPT ![r] = 0]
              /\ IF statusAccepted(status)
                 THEN /\ sOffset' = [sOffset EXCEPT ![r] = resumeOffset(offset, status)]
                      /\ sPc' = [sPc EXCEPT ![r] = "open"]
                      /\ UNCHANGED sErr
                 ELSE /\ sOffset' = [sOffset EXCEPT ![r] = offset]
                      /\ sErr' = [sErr EXCEPT ![r] = "err"]
                      /\ sPc' = [sPc EXCEPT ![r] = "ret"]
    /\ UNCHANGED <<notDl, inputVars, disk, dPc, success, result, chunkedVars,
                   taskVars, fOpen, ioFault>>

\* downloadSingle: os.OpenFile of the .part, which may fail.
SingleOpen(r) ==
    /\ sPc[r] = "open"
    /\ \/ /\ disk' = [disk EXCEPT ![partPath(r)] = openedPart(@, sOffset[r])]
          /\ fOpen' = [fOpen EXCEPT ![r] = @ + 1]
          /\ sPc' = [sPc EXCEPT ![r] = "copy"]
          /\ UNCHANGED <<sErr, ioFault>>
       \/ /\ env[r].faults
          /\ ioFault' = [ioFault EXCEPT ![r] = TRUE]
          /\ sErr' = [sErr EXCEPT ![r] = "err"]
          /\ sPc' = [sPc EXCEPT ![r] = "ret"]
          /\ UNCHANGED <<disk, fOpen>>
    /\ UNCHANGED <<notDl, inputVars, dPc, success, result, chunkedVars,
                   taskVars, sOffset, sRanged, sStatus, sFound, sWritten>>

\* downloadSingle: one step of io.Copy(f, reader): the next byte of the body
\* goes to the end of the .part, or the read fails, or the write fails (the
\* deferred f.Close() runs on the error return); at the end of the body the
\* copy returns nil.
SingleCopy(r) ==
    /\ sPc[r] = "copy"
    /\ LET body == bodyOf(sStatus[r], content[r], sOffset[r], Len(content[r]) - 1)
       IN  IF sWritten[r] < Len(body)
           THEN \/ /\ disk' = [disk EXCEPT ![partPath(r)].data =
                                   Append(@, body[sWritten[r] + 1])]
                   /\ sWritten' = [sWritten EXCEPT ![r] = @ + 1]
                   /\ UNCHANGED <<sPc, sErr, fOpen, ioFault>>
                \/ /\ "neterr" \in env[r].answers
                   /\ sErr' = [sErr EXCEPT ![r] = "err"]
                   /\ sPc' = [sPc EXCEPT ![r] = "ret"]
                   /\ fOpen' = [fOpen EXCEPT ![r] = closeFile(@)]
                   /\ UNCHANGED <<disk, sWritten, ioFault>>
                \/ /\ env[r].faults
                   /\ sErr' = [sErr EXCEPT ![r] = "err"]
                   /\ sPc' = [sPc EXCEPT ![r] = "ret"]
                   /\ fOpen' = [fOpen EXCEPT ![r] = closeFile(@)]
                   /\ ioFault' = [ioFault EXCEPT ![r] = TRUE]
                   /\ UNCHANGED <<disk, sWritten>>
           ELSE /\ sPc' = [sPc EXCEPT ![r] = "rename"]
                /\ UNCHANGED <<disk, sWritten, sErr, fOpen, ioFault>>
    /\ UNCHANGED <<notDl, inputVars, dPc, success, result, chunkedVars,
                   taskVars, sOffset, sRanged, sStatus, sFound>>

\* downloadSingle: `return finalizePart(partPath, outputPath)`, then the
\* deferred f.Close().
SingleRename(r) ==
    /\ sPc[r] = "rename"
    /\ \/ /\ disk' = finalizePart(disk, partPath(r), outputPath(r))
          /\ sErr' = [sErr EXCEPT ![r] = "nil"]
          /\ UNCHANGED ioFault
       \/ /\ env[r].faults
          /\ ioFault' = [ioFault EXCEPT ![r] = TRUE]
          /\ sErr' = [sErr EXCEPT ![r] = "err"]
          /\ UNCHANGED disk
    /\ fOpen' = [fOpen EXCEPT ![r] = closeFile(@)]
    /\ sPc' = [sPc EXCEPT ![r] = "ret"]
    /\ UNCHANGED <<notDl, inputVars, dPc, success, result, chunkedVars,
                   taskVars, sOffset, sRanged, sStatus, sFound, sWritten>>

\* Mutant of singleSucceeded: download goes on to `success = true` after a
\* failed downloadSingle.
singleSucceededAlways(err) == TRUE

\* download: `if err := c.downloadSingle(...); err != nil { return }`.
singleSucceeded(err) == err = "nil"

\* download: after downloadSingle returned: an error returns at once,
\* nil sets `success = true`.
DownloadAfterSingle(r) ==
    /\ dPc[r] = "single" /\ sPc[r] = "ret"
    /\ success' = [success EXCEPT ![r] = singleSucceeded(sErr[r])]
    /\ dPc' = [dPc EXCEPT ![r] = "send"]
    /\ UNCHANGED <<notDl, inputVars, disk, result, chunkedVars, taskVars,
                   singleVars, fOpen, ioFault>>

\* Mutant of downloadResult: every download reports ok.
downloadResultAlwaysOk(ok, length) == [size |-> Max(length, 0), ok |-> TRUE]

\* The deferred send of download: size is max(r.length, 0) on success and 0
\* otherwise, ok is `success`.
downloadResult(ok, length) ==
    [size |-> IF ok THEN Max(length, 0) ELSE 0, ok |-> ok]

\* download: the deferred `done <- downloadResult{...}`.
DownloadSend(r) ==
    /\ dPc[r] = "send"
    /\ result' = [result EXCEPT ![r] = downloadResult(success[r], res[r].length)]
    /\ dPc' = [dPc EXCEPT ![r] = "done"]
    /\ UNCHANGED <<notDl, inputVars, disk, success, chunkedVars, taskVars,
                   singleVars, fOpen, ioFault>>

(***************************************************************************)
(* The orchestrator, Run                                                   *)
(*                                                                         *)
(* Run makes the output directory, probes every URL concurrently, keeps    *)
(* the resources of the successful probes in the order of their URLs,      *)
(* deduplicates their filenames, passes the disk-space gate, launches one  *)
(* download per resource, receives every result and returns.  An error is  *)
(* the sequence of the pieces of its text; nil is the empty sequence.      *)
(***************************************************************************)

\* The lengths of the server body of each URL of a batch, and the bytes the
\* file system of the output directory may have available.
RunBodies == ("r1" :> {2}) @@ ("r2" :> {1})
RunAvailable == {1, 16}
RunChunkCount == CHOOSE n \in ChunkCounts : \A m \in ChunkCounts : m <= n

\* The answers a server may give to the probe's HEAD: no answer (the
\* request fails), a status other than 200, or a 200 without
\* Content-Length, with Content-Length, or with Content-Length and
\* Accept-Ranges: bytes; and the filename the probe derives from the answer
\* and the URL.
failedHead(status) ==
    [status |-> status, name |-> <<"a">>, known |-> FALSE, acceptRanges |-> FALSE]
Heads ==
    {failedHead("neterr"), failedHead("404")} \cup
    { [status |-> "200", name |-> n, known |-> k[1], acceptRanges |-> k[2]] :
         n \in ProbeNames,
         k \in {<<FALSE, FALSE>>, <<TRUE, FALSE>>, <<TRUE, TRUE>>} }

\* Mutants of probeSucceeds: every probe yields a resource; every answered
\* probe yields a resource, whatever its status.
probeSucceedsAlways(h) == TRUE
probeSucceedsAnswered(h) == h.status # "neterr"

\* getResourceInformation returns a resource unless c.Client.Do fails or
\* `resp.StatusCode != http.StatusOK`.
probeSucceeds(h) == h.status = "200"

\* The output directory before a run: empty, or holding one older file or
\* one older .part.
RunDisks ==
    { [p \in AllPaths |-> IF p = old THEN File(oldBytes(1)) ELSE NoFile] :
         old \in {<<>>, <<"a">>, <<"a">> \o partSuffix} }

\* The servers and file systems of a batch: a server that answers every GET
\* (honouring or ignoring its Range header), one that rejects every GET, one
\* whose connections may break on a file system whose operations may fail.
RunEnvs ==
    { [answers |-> {"206", "200"}, faults |-> FALSE],
      [answers |-> {"reject"}, faults |-> FALSE],
      [answers |-> {"206", "neterr"}, faults |-> TRUE] }

runIdle ==
    /\ chunkCount = 0
    /\ available = 0
    /\ head = [u \in Res |-> <<>>]
    /\ probe = [u \in Res |-> "off"]
    /\ arrived = <<>>
    /\ batch = <<>>
    /\ rPc = "off"
    /\ received = {}
    /\ failed = 0
    /\ remainingSize = 0
    /\ pd = "off"
    /\ runErr = <<>>

\* A batch of URLs before Run: any server bodies, any answers to HEAD, a
\* chunk count, and an output directory that may hold an older file and an
\* older .part.
\* Run is about to start: nothing is probed, no task exists.
runStart ==
    /\ res = [u \in Res |-> noResource]
    /\ dPc = [u \in Res |-> "off"]
    /\ success = [u \in Res |-> FALSE]
    /\ result = [u \in Res |-> <<>>]
    /\ cPc = [u \in Res |-> "off"]
    /\ cRet = [u \in Res |-> FALSE]
    /\ fetchErr = [u \in Res |-> FALSE]
    /\ cancelled = [u \in Res |-> FALSE]
    /\ tPc = [u \in Res |-> <<>>]
    /\ tStatus = [u \in Res |-> <<>>]
    /\ tWritten = [u \in Res |-> <<>>]
    /\ sPc = [u \in Res |-> "off"]
    /\ sOffset = [u \in Res |-> 0]
    /\ sRanged = [u \in Res |-> FALSE]
    /\ sStatus = [u \in Res |-> "none"]
    /\ sFound = [u \in Res |-> NoFile]
    /\ sWritten = [u \in Res |-> 0]
    /\ sErr = [u \in Res |-> "none"]
    /\ fOpen = [u \in Res |-> 0]
    /\ ioFault = [u \in Res |-> FALSE]
    /\ probe = [u \in Res |-> "off"]
    /\ arrived = <<>>
    /\ batch = <<>>
    /\ rPc = "mkdir"
    /\ received = {}
    /\ failed = 0
    /\ remainingSize = 0
    /\ pd = "off"
    /\ runErr = <<>>

\* A batch of two URLs on any of the servers and directories above.
runInit ==
    /\ chunkCount = RunChunkCount
    /\ available \in RunAvailable
    /\ env \in [Res -> RunEnvs]
    /\ \E n \in [Res -> UNION {RunBodies[u] : u \in Res}] :
          /\ \A u \in Res : n[u] \in RunBodies[u]
          /\ content = [u \in Res |-> serverBytes(n[u])]
    /\ head \in [Res -> Heads]
    /\ head[URLs[1]].name = <<"a">>
    /\ disk \in RunDisks
    /\ runStart

\* A batch of two URLs whose servers answer every request, in an empty
\* directory: the second resource is named as the first, or as the first
\* with ".part" after it.
namesInit ==
    /\ chunkCount = RunChunkCount
    /\ available \in RunAvailable
    /\ env = [u \in Res |-> [answers |-> {"206", "200"}, faults |-> FALSE]]
    /\ content = [u \in Res |-> serverBytes(CHOOSE n \in RunBodies[u] : TRUE)]
    /\ \E k1, k2 \in {<<FALSE, FALSE>>, <<TRUE, FALSE>>, <<TRUE, TRUE>>},
          n2 \in {<<"a">>, <<"a">> \o partSuffix} :
          head = ("r1" :> [status |-> "200", name |-> <<"a">>,
                           known |-> k1[1], acceptRanges |-> k1[2]])
              @@ ("r2" :> [status |-> "200", name |-> n2,
                           known |-> k2[1], acceptRanges |-> k2[2]])
    /\ disk = [p \in AllPaths |-> NoFile]
    /\ runStart

\* An error's text contains the piece s.
errContains(err, s) == \E i \in DOMAIN err : err[i] = s

\* Step 1: make the output directory (which may fail), then start one probe
\* per URL.
RunMkdir ==
    /\ rPc = "mkdir"
    /\ \/ /\ rPc' = "probe"
          /\ probe' = [u \in Res |-> "pending"]
          /\ UNCHANGED runErr
       \/ /\ rPc' = "returned"
          /\ runErr' = <<"failed to create output directory">>
          /\ UNCHANGED probe
    /\ UNCHANGED <<notRun, dlVars, chunkCount, available, head, arrived, pd, batch,
                   received, failed, remainingSize>>

\* Step 2: the probe of URL u finishes, in any order with the other probes.
ProbeDone(u) ==
    /\ rPc = "probe" /\ probe[u] = "pending"
    /\ probe' = [probe EXCEPT ![u] = "done"]
    /\ arrived' = Append(arrived, u)
    /\ UNCHANGED <<notRun, dlVars, chunkCount, available, head, pd, batch, rPc,
                   received, failed, remainingSize, runErr>>

RECURSIVE selectSeq(_, _)
\* The elements of a sequence that are in a set, in the sequence's order.
selectSeq(q, S) ==
    IF q = <<>> THEN <<>>
    ELSE (IF Head(q) \in S THEN <<Head(q)>> ELSE <<>>) \o selectSeq(Tail(q), S)

\* Mutant of collected: the resources are kept in the order in which their
\* probes finished.
collectedAsArrived(urls, order, S) == selectSeq(order, S)

\* The collected, ordered resource list: the successful resources S in the
\* order of their URLs, whatever the order in which the probes finished.
collected(urls, order, S) == selectSeq(urls, S)

\* Step 2: with every probe finished, the successful resources are kept in
\* the order of their URLs; without any, Run fails.
RunCollectProbes ==
    /\ rPc = "probe"
    /\ \A u \in Res : probe[u] = "done"
    /\ LET ok == collected(URLs, arrived, {u \in Res : probeSucceeds(head[u])})
       IN  IF ok = <<>>
           THEN /\ rPc' = "returned"
                /\ runErr' = <<"no valid resources found">>
                /\ UNCHANGED <<batch, res>>
           ELSE /\ rPc' = "dedup"
                /\ batch' = ok
                /\ res' = [u \in Res |->
                             IF probeSucceeds(head[u])
                             THEN probed(u, head[u].name, Len(content[u]),
                                         head[u].known, head[u].acceptRanges,
                                         chunkCount)
                             ELSE noResource]
                /\ UNCHANGED runErr
    /\ UNCHANGED <<notRun, content, env, disk, dPc, success, result,
                   chunkedVars, taskVars, singleVars, fOpen, ioFault, chunkCount,
                   available, head, arrived, pd, probe, received, failed, remainingSize>>

\* What os.ReadDir lists of the output directory: every file, by name.
readDir(d) == [p \in {q \in DOMAIN d : d[q].exists} |-> "file"]

\* Step 3: deduplicate the filenames against the output directory.
RunDedup ==
    /\ rPc = "dedup"
    /\ LET list == [i \in DOMAIN batch |-> res[batch[i]]]
           out == deduplicateFilenames(list, "out", readDir(disk))
       IN  res' = [u \in Res |->
                     IF \E i \in DOMAIN batch : batch[i] = u
                     THEN out[CHOOSE i \in DOMAIN batch : batch[i] = u]
                     ELSE res[u]]
    /\ rPc' = "gate"
    /\ UNCHANGED <<notRun, content, env, disk, dPc, success, result,
                   chunkedVars, taskVars, singleVars, fOpen, ioFault, chunkCount,
                   available, head, arrived, pd, probe, batch, received, failed, remainingSize, runErr>>

RECURSIVE sumPositive(_, _)
\* Step 4: the sum of the positive lengths of the resources of a list.
sumPositive(q, r) ==
    IF q = <<>> THEN 0
    ELSE Max(r[Head(q)].length, 0) + sumPositive(Tail(q), r)

\* Mutant of checkDiskSpace: the gate always passes.
checkDiskSpaceAlways(avail, needed) == TRUE

\* checkDiskSpace fails if `available < needed`.
checkDiskSpace(avail, needed) == avail >= needed

\* Step 4: the disk-space gate, for a positive total only.
RunGate ==
    /\ rPc = "gate"
    /\ LET totalSize == sumPositive(batch, res)
       IN  IF totalSize > 0 /\ ~checkDiskSpace(available, totalSize)
           THEN /\ rPc' = "returned"
                /\ runErr' = <<"not enough disk space">>
           ELSE /\ rPc' = "launch"
                /\ UNCHANGED runErr
    /\ UNCHANGED <<notRun, dlVars, chunkCount, available, head, arrived, pd, probe, batch,
                   received, failed, remainingSize>>

\* Steps 5 and 6: start the progress aggregator and launch one download
\* task per resource.
RunLaunch ==
    /\ rPc = "launch"
    /\ pd' = "running"
    /\ LET B == {batch[i] : i \in DOMAIN batch}
       IN  /\ dPc' = [u \in Res |-> IF u \in B THEN "ready" ELSE "off"]
           /\ tPc' = [u \in Res |-> [i \in Tasks(u) |-> "off"]]
           /\ tStatus' = [u \in Res |-> [i \in Tasks(u) |-> "none"]]
           /\ tWritten' = [u \in Res |-> [i \in Tasks(u) |-> 0]]
    /\ arrived' = <<>>
    /\ rPc' = "collect"
    /\ UNCHANGED <<notRun, inputVars, disk, success, result, chunkedVars,
                   singleVars, fOpen, ioFault, chunkCount, available, head,
                   probe, batch, received, failed, remainingSize, runErr>>

RECURSIVE sumLengths(_, _)
\* The sum of r.length over the resources of a list.
sumLengths(q, r) ==
    IF q = <<>> THEN 0 ELSE r[Head(q)].length + sumLengths(Tail(q), r)

\* `remaining` after the result of index i (from 0) has arrived:
\* totalSize less r.length of each of resources[:i+1].
remainingAfter(i, resources, r, totalSize) ==
    totalSize - sumLengths(SubSeq(resources, 1, i + 1), r)

\* Step 7: receive the result a download has sent, and compute `remaining`
\* for the soft disk-space check, whose failure is logged only.
RunReceive(u) ==
    /\ rPc = "collect"
    /\ dPc[u] = "done" /\ u \notin received
    /\ received' = received \cup {u}
    /\ failed' = failed + (IF result[u].ok THEN 0 ELSE 1)
    /\ remainingSize' = remainingAfter(Cardinality(received), batch, res,
                                       sumPositive(batch, res))
    /\ UNCHANGED <<notRun, dlVars, chunkCount, available, head, arrived, pd, probe, batch,
                   rPc, runErr>>

\* Step 8: the error of a batch with `n` failed downloads.
batchError(n) == IF n > 0 THEN <<itoa(n), " ", "download(s) failed">> ELSE <<>>

\* Step 8: with every result received, Run stops the progress aggregator
\* and returns.
RunFinish ==
    /\ rPc = "collect"
    /\ received = {batch[i] : i \in DOMAIN batch}
    /\ pd' = "stopped"
    /\ runErr' = batchError(failed)
    /\ rPc' = "returned"
    /\ UNCHANGED <<notRun, dlVars, chunkCount, available, head, arrived, probe, batch,
                   received, failed, remainingSize>>

(***************************************************************************)
(* The progress aggregator (part_008, progressDisplay)                     *)
(*                                                                         *)
(* One goroutine, started by start, renders at every tick and once more    *)
(* when pd.stop is closed; finish closes pd.stop and waits for pd.done.    *)
(* The downloaders call add.  An entry is the filename it shows; "half" is *)
(* an entry that add has made room for and not written yet.                *)
(***************************************************************************)

MaxRenders == 3         \* the renders the loop may choose after the stop

Adders == {"d1", "d2"}

pgIdle ==
    /\ pdEntries = <<>> /\ pdMu = "free" /\ pdStop = FALSE /\ pdDone = FALSE
    /\ pdTick = FALSE /\ pdLoop = "off" /\ pdFinish = "idle"
    /\ pdAdd = [k \in Adders |-> [pc |-> "off", old |-> <<>>]]
    /\ pdShown = <<>> /\ pdAfter = 0

\* newProgressDisplay(): no entry, both channels open.
pgInit ==
    /\ pdEntries = <<>> /\ pdMu = "free" /\ pdStop = FALSE /\ pdDone = FALSE
    /\ pdTick = FALSE /\ pdLoop = "off" /\ pdFinish = "idle"
    /\ pdAdd = [k \in Adders |-> [pc |-> "idle", old |-> <<>>]]
    /\ pdShown = <<>> /\ pdAfter = 0

\* pd.mu.Lock() goes through when nobody holds the mutex.
lockFree(m) == m = "free"

\* add: pd.mu.Lock(), and the read of pd.entries for append.
AddLock(k) ==
    /\ pdAdd[k].pc = "idle"
    /\ lockFree(pdMu)
    /\ pdMu' = k
    /\ pdAdd' = [pdAdd EXCEPT ![k] = [pc |-> "locked", old |-> pdEntries]]
    /\ UNCHANGED <<notPg, pdEntries, pdStop, pdDone, pdTick, pdLoop, pdFinish,
                   pdShown, pdAfter>>

\* add: append makes room for the entry.
AddGrow(k) ==
    /\ pdAdd[k].pc = "locked"
    /\ pdEntries' = Append(pdAdd[k].old, "half")
    /\ pdAdd' = [pdAdd EXCEPT ![k].pc = "grown"]
    /\ UNCHANGED <<notPg, pdMu, pdStop, pdDone, pdTick, pdLoop, pdFinish,
                   pdShown, pdAfter>>

\* add: the entry is written, and the deferred pd.mu.Unlock().
AddFill(k) ==
    /\ pdAdd[k].pc = "grown"
    /\ pdEntries' = [pdEntries EXCEPT ![Len(pdAdd[k].old) + 1] = k]
    /\ pdAdd' = [pdAdd EXCEPT ![k].pc = "added"]
    /\ pdMu' = IF pdMu = k THEN "free" ELSE pdMu
    /\ UNCHANGED <<notPg, pdStop, pdDone, pdTick, pdLoop, pdFinish, pdShown,
                   pdAfter>>

\* start: the render goroutine begins at its select.
PdStart ==
    /\ pdLoop = "off"
    /\ pdLoop' = "select"
    /\ UNCHANGED <<notPg, pdEntries, pdMu, pdStop, pdDone, pdTick, pdFinish,
                   pdAdd, pdShown, pdAfter>>

\* The ticker puts a tick into ticker.C, which holds one.
PdTick ==
    /\ pdLoop \in {"select", "renderTick", "renderStop"}
    /\ ~pdTick
    /\ pdTick' = TRUE
    /\ UNCHANGED <<notPg, pdEntries, pdMu, pdStop, pdDone, pdLoop, pdFinish,
                   pdAdd, pdShown, pdAfter>>

\* The cases of the loop's select that can proceed; select takes any one
\* of them.
readyCases(tick, stop) ==
    (IF tick THEN {"tick"} ELSE {}) \cup (IF stop THEN {"stop"} ELSE {})

\* The loop's select.
LoopSelect ==
    /\ pdLoop = "select"
    /\ \E case \in readyCases(pdTick, pdStop) :
          /\ (case = "tick" /\ pdStop) => pdAfter < MaxRenders
          /\ pdLoop' = IF case = "tick" THEN "renderTick" ELSE "renderStop"
          /\ pdTick' = IF case = "tick" THEN FALSE ELSE pdTick
    /\ pdAfter' = pdAfter + (IF pdStop THEN 1 ELSE 0)
    /\ UNCHANGED <<notPg, pdEntries, pdMu, pdStop, pdDone, pdFinish, pdAdd,
                   pdShown>>

\* render, under pd.mu: every entry is written out; after the render of the
\* stop case the loop returns.
LoopRender ==
    /\ pdLoop \in {"renderTick", "renderStop"}
    /\ lockFree(pdMu)
    /\ pdShown' = pdEntries
    /\ pdLoop' = IF pdLoop = "renderTick" THEN "select" ELSE "closing"
    /\ UNCHANGED <<notPg, pdEntries, pdMu, pdStop, pdDone, pdTick, pdFinish,
                   pdAdd, pdAfter>>

\* The loop's deferred ticker.Stop() and close(pd.done).
LoopExit ==
    /\ pdLoop = "closing"
    /\ pdDone' = TRUE
    /\ pdLoop' = "exited"
    /\ UNCHANGED <<notPg, pdEntries, pdMu, pdStop, pdTick, pdFinish, pdAdd,
                   pdShown, pdAfter>>

\* finish: close(pd.stop).  Run calls finish after start.
FinishClose ==
    /\ pdFinish = "idle" /\ pdLoop # "off"
    /\ pdStop' = TRUE
    /\ pdFinish' = "wait"
    /\ UNCHANGED <<notPg, pdEntries, pdMu, pdDone, pdTick, pdLoop, pdAdd,
                   pdShown, pdAfter>>

\* finish: `<-pd.done`, the trailing newline and the return.
FinishReturn ==
    /\ pdFinish = "wait" /\ pdDone
    /\ pdFinish' = "returned"
    /\ UNCHANGED <<notPg, pdEntries, pdMu, pdStop, pdDone, pdTick, pdLoop,
                   pdAdd, pdShown, pdAfter>>

(***************************************************************************)
(* The prober (download.go, getResourceInformation)                        *)
(*                                                                         *)
(* A call holds the URL's path and the answer to the HEAD request.  Names  *)
(* and paths are sequences of one-character strings.                       *)
(***************************************************************************)

callIdle == call = <<>> /\ ret = <<>>

\* path with its trailing slashes stripped (the first loop of filepath.Base).
RECURSIVE stripSlashes(_)
stripSlashes(path) ==
    IF Len(path) > 0 /\ path[Len(path)] = "/"
    THEN stripSlashes(SubSeq(path, 1, Len(path) - 1))
    ELSE path

\* filepath.Base: "." for the empty path, "/" for a path of slashes only,
\* else the last element of the path without its trailing slashes.
filepathBase(path) ==
    IF path = <<>> THEN <<".">>
    ELSE LET p == stripSlashes(path)
             slashes == {i \in 1 .. Len(p) : p[i] = "/"}
             last == IF slashes = {} THEN 0
                     ELSE CHOOSE i \in slashes : \A j \in slashes : j <= i
         IN  IF p = <<>> THEN <<"/">> ELSE SubSeq(p, last + 1, Len(p))

\* The Content-Type values of the answers, "" for no header.
ContentTypes == {"", "image/jpeg", "application/x-none"}

unknown == <<"u", "n", "k", "n", "o", "w", "n">>

\* findExtension: the extension of a MIME type, "unknown" when there is none.
findExtension(mimeType) ==
    IF mimeType = "image/jpeg" THEN <<"j", "p", "g">> ELSE unknown

\* The filename parameters of the Content-Disposition headers (empty:
\* the header has no filename parameter).
CdFilenames ==
    { <<>>, <<".">>, <<"/">>, <<"/", "/">>, <<".", ".">>, <<"c">>, <<"c", ".", "t">>,
      <<"d", "/">>, <<"d", "/", "c">>, <<"d", "/", ".">>, <<".", "/">> }

\* The Content-Disposition headers: none, one mime.ParseMediaType rejects,
\* one it parses.
ContentDispositions ==
    { [present |-> FALSE, err |-> FALSE, filename |-> <<>>],
      [present |-> TRUE, err |-> TRUE, filename |-> <<>>] } \cup
    { [present |-> TRUE, err |-> FALSE, filename |-> f] : f \in CdFilenames }

\* The paths of the probed URLs.
UrlPaths ==
    { <<>>, <<"/">>, <<"/", "f">>, <<"/", "f", ".", "t">>, <<"/", "d", "/">>,
      <<"/", ".">>, <<"/", "d", "/", "f">>, <<"/", "/">> }

\* The Accept-Ranges headers: none (<<"absent">>), or the header's values.
AcceptRanges ==
    { <<"absent">>, <<>>, <<"bytes">>, <<"none">>, <<"none", "bytes">>,
      <<"bytes", "none">> }

\* Mutant of acceptsBytes: any Accept-Ranges header will do.
acceptsBytesAnyValue(acceptRanges) == acceptRanges # <<"absent">>

\* `ok && len(acceptRanges) > 0 && acceptRanges[0] == "bytes"`
acceptsBytes(acceptRanges) ==
    /\ acceptRanges # <<"absent">>
    /\ Len(acceptRanges) > 0
    /\ acceptRanges[1] = "bytes"

\* Mutant of cdNameAccepted: every basename is taken as the filename.
cdNameAcceptedAlways(name) == TRUE

\* `if name != "." && name != "/"`
cdNameAccepted(name) == name # <<".">> /\ name # <<"/">>

download == <<"d", "o", "w", "n", "l", "o", "a", "d">>

\* The filename from the Content-Disposition header, <<>> when it gives none.
cdFilename(cd) ==
    IF cd.present /\ ~cd.err
    THEN LET name == filepathBase(cd.filename)
         IN  IF cdNameAccepted(name) THEN name ELSE <<>>
    ELSE <<>>

\* The filename from the URL's path: its basename, "download" when that is
\* empty, "." or "/", with the extension of the content type when the
\* basename has none and the type has one.
urlFilename(path, contentType) ==
    LET b == filepathBase(path)
        basename == IF b = <<>> \/ b = <<".">> \/ b = <<"/">> THEN download ELSE b
    IN  IF /\ contentType # ""
           /\ filepathExt(basename) = <<>>
           /\ findExtension(contentType) # unknown
        THEN basename \o <<".">> \o findExtension(contentType)
        ELSE basename

\* getResourceInformation: an error unless the HEAD is answered with 200,
\* else the resource built from the answer.
getResourceInformation(c) ==
    IF c.status # "200" THEN [err |-> TRUE, r |-> noResource]
    ELSE LET name == cdFilename(c.contentDisposition)
         IN  [err |-> FALSE,
              r |-> probed("r1",
                           IF name = <<>> THEN urlFilename(c.path, c.contentType)
                           ELSE name,
                           c.contentLength, c.contentLength >= 0,
                           acceptsBytes(c.acceptRanges), c.chunkSize)]

\* The output directories: clean paths, relative or absolute.
OutputDirs == { <<"o">>, <<"/", "o">>, <<"o", "/", "p">> }

\* filepath.Join(c.outputDir, r.filename) for a clean directory and a name
\* of one element: Join cleans the joined path, so that "." names the
\* directory itself and ".." its parent ("." for a relative directory of one
\* element, "/" for a child of the root).
filepathJoin(dir, name) ==
    LET slashes == {i \in 1 .. Len(dir) : dir[i] = "/"}
        last == IF slashes = {} THEN 0
                ELSE CHOOSE i \in slashes : \A j \in slashes : j <= i
    IN  IF name = <<".">> THEN dir
        ELSE IF name = <<".", ".">>
             THEN IF last = 0 THEN <<".">>
                  ELSE IF last = 1 THEN <<"/">>
                  ELSE SubSeq(dir, 1, last - 1)
        ELSE dir \o <<"/">> \o name

\* The calls of the prober: any answer to the HEAD, and any chunk count the
\* flag parser lets through, within the bounds.
ProbeCalls ==
    [fn : {"getResourceInformation"},
     status : {"200", "404", "neterr"},
     path : UrlPaths,
     contentLength : {-1, 0, 1, 2, MaxLength - 1, MaxLength},
     acceptRanges : AcceptRanges,
     contentType : ContentTypes,
     contentDisposition : ContentDispositions,
     chunkSize : {1, 2, MaxChunks}]

probeInit == call \in ProbeCalls /\ ret = <<>>

CallGetResourceInformation ==
    /\ call # <<>> /\ call.fn = "getResourceInformation" /\ ret = <<>>
    /\ ret' = getResourceInformation(call)
    /\ UNCHANGED <<notCall, call>>

(***************************************************************************)
(* The command line (app.go parseFlags, helpers.go parseRate)              *)
(*                                                                         *)
(* int64 is IntBits bits wide, as in the limiter.  float64 has fewer       *)
(* mantissa bits than int64 has value bits (53 < 63), so float64(MaxInt64) *)
(* is 2^63; here a float has FloatBits = IntBits - 2 mantissa bits, and    *)
(* the multipliers are scaled with the width.                              *)
(***************************************************************************)

FloatBits == IntBits - 2

\* K, M and G, scaled to the width of the integers: 2 stands for 1024.
kilo == 2
mega == kilo * kilo
giga == kilo * mega

\* The number of bits of x > 0, 0 for 0.
RECURSIVE bitLen(_)
bitLen(x) == IF x = 0 THEN 0 ELSE 1 + bitLen(x \div 2)

\* The float nearest to the integer x >= 0 (ties to even).
toFloat(x) ==
    IF bitLen(x) <= FloatBits THEN x
    ELSE LET ulp == 2 ^ (bitLen(x) - FloatBits)
             q == x \div ulp
             r == x % ulp
         IN  IF 2 * r > ulp \/ (2 * r = ulp /\ q % 2 = 1)
             THEN (q + 1) * ulp ELSE q * ulp

\* The -limit strings: digits (of any integer from -2 up to 2^IntBits + 1),
\* nothing, a word that is no number, NaN or Inf, each with or without a
\* K, M or G suffix.
LimitStrings ==
    [kind : {"empty", "word", "nan", "inf"}, value : {0}, suffix : {"", "K", "M", "G"}]
    \cup [kind : {"num"}, value : -2 .. 2 ^ IntBits + 1, suffix : {"", "K", "M", "G"}]

\* The multiplier of the suffix.
multiplierOf(suffix) ==
    CASE suffix = "G" -> giga
      [] suffix = "M" -> mega
      [] suffix = "K" -> kilo
      [] OTHER -> 1

\* `int64(product)` of a float >= 0: a value beyond int64 has an
\* implementation-dependent conversion, the smallest int64 on amd64 and the
\* largest on arm64.
toInt64(product) == IF product <= MaxInt THEN {product} ELSE {MinInt, MaxInt}

\* `result > float64(math.MaxInt64)`
tooLarge(product) == product > toFloat(MaxInt)

\* parseRate: the bytes per second of a -limit string, 0 for unlimited; the
\* set of the values a build may return.
parseRate(s) ==
    LET failure == [err |-> TRUE, rate |-> 0]
        product == toFloat(toFloat(s.value) * multiplierOf(s.suffix))
    IN  IF s.suffix = "" /\ (s.kind = "empty" \/ (s.kind = "num" /\ s.value = 0))
        THEN {[err |-> FALSE, rate |-> 0]}
        ELSE IF s.kind \in {"empty", "word"} THEN {failure}
        ELSE IF s.kind \in {"nan", "inf"} \/ s.value < 0 THEN {failure}
        ELSE IF tooLarge(product) THEN {failure}
        ELSE {[err |-> FALSE, rate |-> v] : v \in toInt64(product)}

\* The -chunks values and -limit strings of the parseFlags calls.
FlagChunks == {-1, 0, 1, 5, 99, 100}
FlagLimits ==
    { [kind |-> "num", value |-> 0, suffix |-> ""],
      [kind |-> "num", value |-> 3, suffix |-> "K"],
      [kind |-> "word", value |-> 0, suffix |-> ""] }

\* parseFlags: -version stops it, a bad -limit is an error, and otherwise
\* the flags are stored in the application.
parseFlags(c) ==
    IF c.version THEN {[err |-> "version", chunkSize |-> 0, rate |-> 0]}
    ELSE { IF r.err
           THEN [err |-> "invalid limit", chunkSize |-> 0, rate |-> 0]
           ELSE [err |-> "nil", chunkSize |-> c.chunks, rate |-> r.rate] :
           r \in parseRate(c.limit) }

FlagCalls ==
    [fn : {"parseFlags"}, version : BOOLEAN, chunks : FlagChunks, limit : FlagLimits]
    \cup [fn : {"parseRate"}, s : LimitStrings]

flagsInit == call \in FlagCalls /\ ret = <<>>

CallParseRate ==
    /\ call # <<>> /\ call.fn = "parseRate" /\ ret = <<>>
    /\ ret' \in parseRate(call.s)
    /\ UNCHANGED <<notCall, call>>

CallParseFlags ==
    /\ call # <<>> /\ call.fn = "parseFlags" /\ ret = <<>>
    /\ ret' \in parseFlags(call)
    /\ UNCHANGED <<notCall, call>>

(***************************************************************************)
(* URL intake (app.go parsePipe, parseArgs and the head of Run;            *)
(* helpers.go parseValidateURL)                                            *)
(*                                                                         *)
(* A token is a line of standard input or an argument.  It is held as what *)
(* url.ParseRequestURI makes of it: its scheme as written ("none" when the *)
(* token does not parse, "" when it parses to a URL without scheme) and    *)
(* the rest of it.                                                         *)
(***************************************************************************)

\* Bound: the most tokens of one source.
MaxTokens == 2

Tokens ==
    { [scheme |-> sc, rest |-> "a"] : sc \in {"https", "HTTP", "ftp", "", "none"} }
    \cup { [scheme |-> "http", rest |-> "b"] }

\* url.Parse holds the scheme in lower case.
toLower(scheme) == IF scheme = "HTTP" THEN "http" ELSE scheme

\* Mutant of schemeAccepted: every scheme is let through.
schemeAcceptedAny(scheme) == TRUE

\* `u.Scheme != "http" && u.Scheme != "https"` is an error.
schemeAccepted(scheme) == scheme \in {"http", "https"}

\* parseValidateURL: an error for a token that url.ParseRequestURI rejects
\* or whose scheme is neither http nor https, else u.String().
parseValidateURL(in) ==
    IF in.scheme = "none" THEN [err |-> TRUE, url |-> <<>>]
    ELSE IF ~schemeAccepted(toLower(in.scheme)) THEN [err |-> TRUE, url |-> <<>>]
    ELSE [err |-> FALSE, url |-> [scheme |-> toLower(in.scheme), rest |-> in.rest]]

\* The loop of parsePipe and of parseArgs: the URL of every token that
\* parseValidateURL accepts is appended to c.URLS.
RECURSIVE appendValid(_, _)
appendValid(URLS, toks) ==
    IF toks = <<>> THEN URLS
    ELSE LET v == parseValidateURL(Head(toks))
         IN  appendValid(IF v.err THEN URLS ELSE Append(URLS, v.url), Tail(toks))

\* parsePipe: errEmptyPipe when c.URLS is empty after the lines were read.
parsePipe(URLS, lines) ==
    LET got == appendValid(URLS, lines)
    IN  [URLS |-> got, err |-> IF Len(got) = 0 THEN "empty pipe" ELSE "nil"]

parseArgs(URLS, args) == appendValid(URLS, args)

\* The head of Run, after parseFlags: the pipe is read when standard input
\* is piped and its error is returned; then the arguments are read, and an
\* empty list is errEmptyURL.
intake(c) ==
    LET piped == IF c.piped THEN parsePipe(<<>>, c.pipe)
                 ELSE [URLS |-> <<>>, err |-> "nil"]
        all == parseArgs(piped.URLS, c.args)
    IN  IF piped.err # "nil" THEN [err |-> piped.err, URLS |-> piped.URLS]
        ELSE IF Len(all) = 0 THEN [err |-> "empty url", URLS |-> all]
        ELSE [err |-> "nil", URLS |-> all]

TokenLists == UNION {[1 .. n -> Tokens] : n \in 0 .. MaxTokens}

IntakeCalls == [fn : {"intake"}, piped : BOOLEAN, pipe : TokenLists, args : TokenLists]

intakeInit ==
    /\ call \in IntakeCalls
    /\ ~call.piped => call.pipe = <<>>
    /\ ret = <<>>

CallIntake ==
    /\ call # <<>> /\ call.fn = "intake" /\ ret = <<>>
    /\ ret' = intake(call)
    /\ UNCHANGED <<notCall, call>>

InitChunks == gcIdle /\ ddIdle /\ rlIdle /\ dlIdle /\ runIdle /\ callIdle /\ pgIdle
NextChunks == CallGetChunks
SpecChunks == InitChunks /\ [][NextChunks]_vars

InitDedup == gcIdle /\ ddInit /\ rlIdle /\ dlIdle /\ runIdle /\ callIdle /\ pgIdle
NextDedup == Deduplicate
SpecDedup == InitDedup /\ [][NextDedup]_vars

InitLimiter == gcIdle /\ ddIdle /\ rlInit /\ dlIdle /\ runIdle /\ callIdle /\ pgIdle
NextLimiter ==
    \/ Tick
    \/ \E c \in Callers, n \in 0 .. MaxWaitN : WaitCall(c, n)
    \/ \E c \in Callers, plen \in 1 .. MaxWaitN : Read(c, plen)
    \/ \E c \in Callers : WaitForTokens(c)
SpecLimiter == InitLimiter /\ [][NextLimiter]_vars

\* The limiter with a clock that never stops and callers that are scheduled
\* again and again.
NextLimiterLive ==
    \/ TickLive
    \/ \E c \in Callers, n \in 0 .. MaxWaitN : WaitCall(c, n)
    \/ \E c \in Callers : WaitForTokens(c)
InitLimiterLive ==
    gcIdle /\ ddIdle /\ rlInitLive /\ dlIdle /\ runIdle /\ callIdle /\ pgIdle
SpecLimiterLive ==
    /\ InitLimiterLive
    /\ [][NextLimiterLive]_vars
    /\ WF_vars(TickLive)
    /\ \A c \in Callers : WF_vars(WaitForTokens(c))

InitDownload == gcIdle /\ ddIdle /\ rlIdle /\ dlInit /\ runIdle /\ callIdle /\ pgIdle
NextDownload ==
    \E r \in Res :
       \/ DownloadStart(r)
       \/ ChunkedOpen(r)
       \/ ChunkedAlloc(r)
       \/ \E i \in DOMAIN tPc[r] : TaskRequest(r, i)
       \/ \E i \in DOMAIN tPc[r] : TaskCopy(r, i)
       \/ \E i \in DOMAIN tPc[r] : TaskRecordErr(r, i)
       \/ \E i \in DOMAIN tPc[r] : TaskCancel(r, i)
       \/ ChunkedWait(r)
       \/ ChunkedRename(r)
       \/ DownloadAfterChunked(r)
       \/ SingleRequest(r)
       \/ SingleOpen(r)
       \/ SingleCopy(r)
       \/ SingleRename(r)
       \/ DownloadAfterSingle(r)
       \/ DownloadSend(r)
SpecDownload == InitDownload /\ [][NextDownload]_vars

InitRun == gcIdle /\ ddIdle /\ rlIdle /\ runInit /\ callIdle /\ pgIdle
NextRun ==
    \/ RunMkdir
    \/ \E u \in Res : ProbeDone(u)
    \/ RunCollectProbes
    \/ RunDedup
    \/ RunGate
    \/ RunLaunch
    \/ \E u \in Res : RunReceive(u)
    \/ RunFinish
    \/ NextDownload
SpecRun == InitRun /\ [][NextRun]_vars

\* A batch of two URLs in an empty directory, on any of the servers: the
\* first resource is fetched in chunks; the probe of the second fails, or
\* gives the same filename with no length, or another name with chunks.
liveInit ==
    /\ chunkCount = RunChunkCount
    /\ available \in RunAvailable
    /\ env \in [Res -> RunEnvs]
    /\ content = [u \in Res |-> serverBytes(CHOOSE n \in RunBodies[u] : TRUE)]
    /\ \E h2 \in {failedHead("neterr"),
                   [status |-> "200", name |-> <<"a">>,
                    known |-> FALSE, acceptRanges |-> FALSE],
                   [status |-> "200", name |-> <<"b">>,
                    known |-> TRUE, acceptRanges |-> TRUE]} :
          head = ("r1" :> [status |-> "200", name |-> <<"a">>,
                           known |-> TRUE, acceptRanges |-> TRUE])
              @@ ("r2" :> h2)
    /\ disk = [p \in AllPaths |-> NoFile]
    /\ runStart

\* Run under a scheduler that lets every task that can take a step take one
\* in the end.
InitRunLive == gcIdle /\ ddIdle /\ rlIdle /\ liveInit /\ callIdle /\ pgIdle
SpecRunLive == InitRunLive /\ [][NextRun]_vars /\ WF_vars(NextRun)

InitRunNames == gcIdle /\ ddIdle /\ rlIdle /\ namesInit /\ callIdle /\ pgIdle
SpecRunNames == InitRunNames /\ [][NextRun]_vars

InitProbe == gcIdle /\ ddIdle /\ rlIdle /\ dlIdle /\ runIdle /\ probeInit /\ pgIdle
NextProbe == CallGetResourceInformation
SpecProbe == InitProbe /\ [][NextProbe]_vars

InitFlags == gcIdle /\ ddIdle /\ rlIdle /\ dlIdle /\ runIdle /\ flagsInit /\ pgIdle
NextFlags == CallParseRate \/ CallParseFlags
SpecFlags == InitFlags /\ [][NextFlags]_vars

InitProgress == gcIdle /\ ddIdle /\ rlIdle /\ dlIdle /\ runIdle /\ callIdle /\ pgInit
NextProgress ==
    \/ PdStart
    \/ PdTick
    \/ LoopSelect
    \/ LoopRender
    \/ LoopExit
    \/ FinishClose
    \/ FinishReturn
    \/ \E k \in Adders : AddLock(k) \/ AddGrow(k) \/ AddFill(k)
SpecProgress == InitProgress /\ [][NextProgress]_vars

InitIntake == gcIdle /\ ddIdle /\ rlIdle /\ dlIdle /\ runIdle /\ intakeInit /\ pgIdle
NextIntake == CallIntake
SpecIntake == InitIntake /\ [][NextIntake]_vars

\* ---- C1 -----------------------------------------------------------------
\* C1: whenever downloadChunked has returned true (every chunk task
\* succeeded), the final file holds exactly the server's bytes
\* [0, length-1], in every interleaving of the chunk tasks' steps and
\* whatever the .part held before.
ChunkedFileEqualsServer ==
    \A r \in Res :
       (cPc[r] = "ret" /\ cRet[r]) =>
          /\ \A i \in Tasks(r) : tPc[r][i] = "done"
          /\ disk[outputPath(r)] = File(content[r])
          /\ Len(content[r]) = res[r].length

ChunkedFileEqualsServerWitness ==
    /\ cPc["r1"] = "ret" /\ cRet["r1"]
    /\ Len(res["r1"].chunks) = 2
    /\ tWritten["r1"] = <<2, 1>>
    /\ disk[outputPath("r1")] = File(<<1, 2, 3>>)

\* ---- C2 -----------------------------------------------------------------
\* The server of C2: every ranged GET of the download was rejected (or was
\* never answered because its context had been cancelled by a rejected
\* sibling), and a plain GET is answered 200 with its whole body.
rangeRejectingServer(r) ==
    /\ \A i \in Tasks(r) : tStatus[r][i] \in {"reject", "cancelled"}
    /\ sRanged[r] => sStatus[r] = "reject"
    /\ ~sRanged[r] => (sStatus[r] = "200" /\ sWritten[r] = Len(content[r]))

\* C2: when the probe advertised ranges with a positive length (the
\* resource has chunks), the server rejects every ranged GET and answers a
\* plain GET with 200, and no local file operation fails, a finished
\* download has reported ok = true and the final file is the plain GET's
\* body.
FallbackToSingle ==
    \A r \in Res :
       (/\ dPc[r] = "done"
        /\ res[r].chunks # <<>>
        /\ rangeRejectingServer(r)
        /\ ~ioFault[r]) =>
          /\ result[r].ok
          /\ disk[outputPath(r)] = File(content[r])

FallbackToSingleWitness ==
    /\ dPc["r1"] = "done"
    /\ tStatus["r1"] = <<"reject", "reject">>
    /\ ~sRanged["r1"] /\ sStatus["r1"] = "200"
    /\ ~ioFault["r1"]
    /\ result["r1"] = [size |-> 3, ok |-> TRUE]
    /\ disk[outputPath("r1")] = File(<<1, 2, 3>>)
    /\ ~disk[partPath("r1")].exists

\* ---- C3 -----------------------------------------------------------------
\* C3: when downloadSingle found a .part of size k with 0 < k < length,
\* the server answered its `Range: bytes=k-` request with 206 and the
\* call returned nil, the final file is the old .part content followed by
\* the server's bytes [k, length).
ResumeKeepsPart ==
    \A r \in Res :
       LET k == Len(sFound[r].data)
           length == Len(content[r])
       IN  (/\ sPc[r] = "ret" /\ sErr[r] = "nil"
            /\ sFound[r].exists /\ 0 < k /\ k < length
            /\ sStatus[r] = "206") =>
              /\ sRanged[r] /\ sOffset[r] = k
              /\ disk[outputPath(r)] =
                    File(sFound[r].data \o SubSeq(content[r], k + 1, length))

ResumeKeepsPartWitness ==
    /\ sPc["r1"] = "ret" /\ sErr["r1"] = "nil"
    /\ sStatus["r1"] = "206"
    /\ sFound["r1"] = File(<<-1>>)
    /\ disk[outputPath("r1")] = File(<<-1, 2, 3>>)

\* ---- C4 -----------------------------------------------------------------
\* C4: when downloadSingle found a .part of size k > 0, the server answered
\* the ranged GET with 200 and the call returned nil, the final file is
\* exactly the full response body: nothing of the old .part is left.
RangeIgnoredRestarts ==
    \A r \in Res :
       (/\ sPc[r] = "ret" /\ sErr[r] = "nil"
        /\ sRanged[r] /\ sStatus[r] = "200") =>
          /\ sOffset[r] = 0
          /\ disk[outputPath(r)] = File(content[r])

RangeIgnoredRestartsWitness ==
    /\ sPc["r1"] = "ret" /\ sErr["r1"] = "nil"
    /\ sRanged["r1"] /\ sStatus["r1"] = "200"
    /\ sFound["r1"] = File(<<-1, -2>>)
    /\ disk[outputPath("r1")] = File(<<1, 2, 3>>)

\* ---- C10 ----------------------------------------------------------------
\* The resources of the batch, and the bytes the successful download of a
\* resource renamed into place: the server's bytes after a chunked
\* download, and after a single-stream download the .part it resumed (if
\* it did) followed by the body of the answer.
batchSet == {batch[i] : i \in DOMAIN batch}
placedData(u) ==
    IF cRet[u] THEN content[u]
    ELSE (IF sOffset[u] > 0 THEN sFound[u].data ELSE <<>>)
         \o bodyOf(sStatus[u], content[u], sOffset[u], Len(content[u]) - 1)
someFailed == \E u \in batchSet : dPc[u] = "done" /\ ~success[u]

getIssued(u) ==
    \/ sStatus[u] # "none"
    \/ \E i \in DOMAIN tStatus[u] : tStatus[u][i] # "none"

\* No download has started: no task was launched, no GET was issued, the
\* output directory is as it was before the run and the progress
\* aggregator was never started.
nothingStarted ==
    /\ \A u \in Res : dPc[u] = "off" /\ ~getIssued(u)
    /\ disk \in RunDisks
    /\ pd = "off"

probedOk == {u \in Res : head[u].status = "200"}

renamesComplete(u) ==
    /\ \/ /\ cPc[u] = "rename" /\ cRet'[u]
          /\ \A i \in DOMAIN tPc[u] :
                tPc[u][i] = "done" /\ tWritten[u][i] = chunkSizeOf(res[u].chunks[i])
       \/ /\ sPc[u] = "rename" /\ sErr'[u] = "nil"
          /\ sWritten[u] =
                Len(bodyOf(sStatus[u], content[u], sOffset[u], Len(content[u]) - 1))
    /\ disk'[outputPath(u)] = disk[partPath(u)]
    /\ ~disk'[partPath(u)].exists

\* In this state every file at the final path of a launched resource is the
\* complete download of a resource that succeeded, and a resource that
\* ended failed has no file at its final path.
finalIsComplete ==
    \A u \in Res :
       dPc[u] # "off" =>
          /\ disk[outputPath(u)].exists =>
                /\ cRet[u] \/ sErr[u] = "nil"
                /\ disk[outputPath(u)] = File(placedData(u))
          /\ (dPc[u] = "done" /\ ~success[u]) => ~disk[outputPath(u)].exists

lifecycle ==
    { <<"off", "ready">>, <<"ready", "chunked">>, <<"ready", "single">>,
      <<"chunked", "single">>, <<"chunked", "send">>, <<"single", "send">>,
      <<"send", "done">> }

\* One step of the task of resource u keeps to the lifecycle: the chunked
\* and the single-stream downloader are each entered at most once, the
\* fallback is taken only after a failed chunked attempt, nothing follows
\* a single-stream attempt but the result, and a result is sent only once.
lifecycleStep(u) ==
    /\ dPc'[u] # dPc[u] => <<dPc[u], dPc'[u]>> \in lifecycle
    /\ (dPc[u] = "chunked" /\ dPc'[u] = "single") => (cPc[u] = "ret" /\ ~cRet[u])
    /\ (dPc[u] = "chunked" /\ dPc'[u] = "send") => (cPc[u] = "ret" /\ cRet[u])
    /\ (cPc'[u] = "open" /\ cPc[u] # "open") =>
          (cPc[u] = "off" /\ dPc[u] = "ready" /\ sPc[u] = "off")
    /\ (sPc'[u] = "request" /\ sPc[u] # "request") =>
          (sPc[u] = "off" /\ dPc'[u] = "single")
    /\ result'[u] # result[u] =>
          (result[u] = <<>> /\ dPc[u] = "send" /\ dPc'[u] = "done")

\* A finished task has sent its result, and the result has ok = true
\* exactly when the .part was renamed to the final path (which held no file
\* before the download).
resultTellsRename ==
    \A u \in Res :
       dPc[u] = "done" =>
          /\ result[u] # <<>>
          /\ result[u].ok <=>
                (disk[outputPath(u)].exists /\ ~disk[partPath(u)].exists)

ownChunkFailure(u, where) ==
    \E i \in DOMAIN tPc[u] : tPc[u][i] \in where /\ tStatus[u][i] # "cancelled"

\* The state of the download task of resource u, files included.
taskState(u) ==
    <<dPc[u], success[u], result[u], cPc[u], cRet[u], fetchErr[u], cancelled[u],
      tPc[u], tStatus[u], tWritten[u], sPc[u], sOffset[u], sRanged[u],
      sStatus[u], sFound[u], sWritten[u], sErr[u], fOpen[u], ioFault[u],
      disk[partPath(u)], disk[outputPath(u)]>>

\* Resource u is the one whose task takes the step.
acts(u) ==
    <<dPc[u], cPc[u], tPc[u], tWritten[u], sPc[u], sWritten[u]>>' #
    <<dPc[u], cPc[u], tPc[u], tWritten[u], sPc[u], sWritten[u]>>

\* A resource's chunk tasks are cancelled, and its chunked attempt fails,
\* only after a chunk failure of its own.
cancelledByOwnFailure ==
    \A u \in Res :
       /\ cancelled[u] => ownChunkFailure(u, {"failed"})
       /\ fetchErr[u] => ownChunkFailure(u, {"cancel", "failed"})
       /\ \A i \in DOMAIN tPc[u] : tStatus[u][i] = "cancelled" => cancelled[u]

probeReturned ==
    /\ call # <<>> /\ call.fn = "getResourceInformation"
    /\ ret # <<>> /\ ~ret.err

\* The chunks cover [0, length-1] without gaps or overlaps.
covers(chunks, length) ==
    /\ chunks[1][1] = 0
    /\ chunks[Len(chunks)][2] = length - 1
    /\ \A i \in 1 .. Len(chunks) : chunks[i][1] <= chunks[i][2]
    /\ \A i \in 2 .. Len(chunks) : chunks[i][1] = chunks[i - 1][2] + 1

\* C17: for every HEAD answered with 200 and every chunk count from 1 up,
\* the resource has chunks exactly when the answer's Accept-Ranges is
\* "bytes" (the first value of a header that is present) and its
\* Content-Length is positive; the chunks of a resource that has them belong
\* to a positive length and cover [0, length-1] without gaps or overlaps.
ChunksOnlyForRangedKnownLength ==
    probeReturned =>
       /\ ret.r.chunks # <<>> <=>
             /\ call.acceptRanges \notin {<<"absent">>, <<>>}
             /\ Head(call.acceptRanges) = "bytes"
             /\ call.contentLength > 0
       /\ ret.r.chunks # <<>> =>
             /\ ret.r.length > 0
             /\ ret.r.length = call.contentLength
             /\ covers(ret.r.chunks, ret.r.length)

ChunksOnlyForRangedKnownLengthWitness ==
    /\ probeReturned
    /\ call.acceptRanges = <<"bytes", "none">>
    /\ call.contentLength = MaxLength - 1 /\ call.chunkSize = 2
    /\ Len(ret.r.chunks) = 2 /\ ret.r.chunks[2][2] = MaxLength - 2

\* ---- C18 ----------------------------------------------------------------
\* C18: a probed resource's filename is never empty, "." or "/": a
\* Content-Disposition filename whose basename is "." or "/" is ignored, the
\* name then comes from the basename of the URL's path, and when that is
\* empty, "." or "/" it is the literal "download" (with the extension of the
\* content type, if it has one).
FilenameNeverDegenerate ==
    probeReturned =>
       /\ ret.r.filename \notin {<<>>, <<".">>, <<"/">>}
       /\ LET cd == call.contentDisposition
              ignored == ~cd.present \/ cd.err
                            \/ filepathBase(cd.filename) \in {<<".">>, <<"/">>}
              base == filepathBase(call.path)
              stem == IF base \in {<<>>, <<".">>, <<"/">>} THEN download ELSE base
          IN  /\ ~ignored => ret.r.filename = filepathBase(cd.filename)
              /\ ignored =>
                    /\ SubSeq(ret.r.filename, 1, Len(stem)) = stem
                    /\ ret.r.filename # stem =>
                          ret.r.filename = stem \o <<".">> \o findExtension(call.contentType)

FilenameNeverDegenerateWitness ==
    /\ probeReturned
    /\ call.contentDisposition = [present |-> TRUE, err |-> FALSE, filename |-> <<"d", "/", ".">>]
    /\ call.path = <<"/">> /\ call.contentType = ""
    /\ ret.r.filename = download

\* ---- C19 ----------------------------------------------------------------
\* C19: parseFlags returns an error for every -chunks value outside 1..99
\* (0 and below, 100 and above), so that no run proceeds with a chunk count
\* outside that range.
ChunksFlagValidated ==
    (call # <<>> /\ call.fn = "parseFlags" /\ ret # <<>>) =>
       /\ call.chunks \notin 1 .. 99 => ret.err # "nil"
       /\ ret.err = "nil" => ret.chunkSize \in 1 .. 99

\* ---- C20 ----------------------------------------------------------------
\* C20: parseRate returns an error or a rate in [0, MaxInt]: it rejects
\* every negative number and every value whose product with the multiplier
\* does not fit an int64, the product MaxInt + 1 included.
RateFitsInt64 ==
    (call # <<>> /\ call.fn = "parseRate" /\ ret # <<>>) =>
       /\ ret.err \/ (0 <= ret.rate /\ ret.rate <= MaxInt)
       /\ (call.s.kind = "num" /\ call.s.value < 0) => ret.err
       /\ (call.s.kind = "num"
            /\ call.s.value * multiplierOf(call.s.suffix) > MaxInt) => ret.err

\* ---- C21 ----------------------------------------------------------------
\* The URLs of the valid tokens of a list, in the order of the list.
RECURSIVE validOf(_)
validOf(toks) ==
    IF toks = <<>> THEN <<>>
    ELSE LET t == Head(toks)
             ok == t.scheme \in {"http", "https", "HTTP"}
         IN  (IF ok THEN <<[scheme |-> toLower(t.scheme), rest |-> t.rest]>> ELSE <<>>)
             \o validOf(Tail(toks))

intakeReturned == call # <<>> /\ call.fn = "intake" /\ ret # <<>>

EmptyOnlyAfterBothSources ==
    intakeReturned =>
       /\ validOf(call.args) # <<>> =>
             (ret.err = "nil" /\ ret.URLS = validOf(call.pipe) \o validOf(call.args))
       /\ (validOf(call.pipe) = <<>> /\ validOf(call.args) = <<>>) =>
             ret.err = "empty url"

\* ---- C23 ----------------------------------------------------------------
\* The reference planner: nothing for length <= 0 or n <= 0; else, with
\* n' = min(n, length), base = length / n' and extra = length mod n', the
\* n' contiguous ranges from 0 of which the first extra have base + 1 bytes
\* and the others base bytes.
referenceChunks(length, n) ==
    IF length <= 0 \/ n <= 0 THEN <<>>
    ELSE LET n1 == Min(n, length)
             base == length \div n1
             extra == length % n1
         IN  [i \in 1 .. n1 |->
                 << (i - 1) * base + Min(i - 1, extra),
                    i * base + Min(i, extra) - 1 >>]

\* C23: getChunks(length, n) is the reference planner's plan for every
\* length and every n.
ChunksEqualReference ==
    gcArgs # <<>> => gcOut = referenceChunks(gcArgs[1], gcArgs[2])

ChunksEqualReferenceWitness ==
    /\ gcArgs = <<MaxLength - 1, 3>>
    /\ Len(gcOut) = 3
    /\ chunkSizeOf(gcOut[1]) = chunkSizeOf(gcOut[3]) + 1
    /\ gcOut = referenceChunks(MaxLength - 1, 3)

\* ---- C24 ----------------------------------------------------------------
\* The names reserved when the walk reaches position i of the list: the
\* non-directory entries of the output directory and the names the earlier
\* resources have after the pass (kept or given).
reservedAt(after, i) ==
    seedUsed(ddOutputDir, ddEntries) \cup {after[j].filename : j \in 1 .. i - 1}

\* after is what the walk in list order makes of before.
walkedInOrder(before, after) ==
    /\ Len(after) = Len(before)
    /\ \A i \in 1 .. Len(before) :
          LET name == before[i].filename
              ext == filepathExt(name)
              base == trimSuffix(name, ext)
              numbered(k) == base \o <<"_">> \o itoa(k) \o ext
              reserved == reservedAt(after, i)
          IN  /\ after[i].url = before[i].url
              /\ after[i].length = before[i].length
              /\ name \notin reserved => after[i].filename = name
              /\ name \in reserved =>
                    \E k \in 1 .. Cardinality(reserved) + 1 :
                       /\ after[i].filename = numbered(k)
                       /\ numbered(k) \notin reserved
                       /\ \A j \in 1 .. k - 1 : numbered(j) \in reserved

\* C24: deduplicateFilenames walks the resources in list order: a resource
\* whose filename is not reserved keeps it, a resource whose filename is
\* reserved gets base_k.ext for the smallest k >= 1 for which that name is
\* not reserved (reserved: the entries on disk and the names the earlier
\* resources of the list have got or kept); nothing but filenames changes,
\* and no resource changes its place.
DedupWalksInOrder ==
    [][(ddPc = "ready" /\ ddPc' = "done") => walkedInOrder(ddResources, ddResources')]_vars

DedupWalksInOrderWitness ==
    /\ ddPc = "done"
    /\ Len(ddResources) = 3
    /\ ddEntries = (<<"a", "_", "1", ".", "z">> :> "file") @@ (<<"a", ".", "z">> :> "dir")
    /\ ddResources[1].filename = <<"a", ".", "z">>
    /\ ddResources[2].filename = <<"a", "_", "2", ".", "z">>
    /\ ddResources[3].filename = <<"a", "_", "3", ".", "z">>

\* ---- C25 ----------------------------------------------------------------
\* The filenames that the input alone gives: the successfully probed URLs
\* in the order of the URL list, each with the name of its HEAD answer,
\* deduplicated against the directory d.
namesByInput(d) ==
    LET ok == selectSeq(URLs, probedOk)
        list == [i \in DOMAIN ok |->
                    [url |-> ok[i], filename |-> head[ok[i]].name, length |-> 0]]
        out == deduplicateFilenames(list, "out", readDir(d))
    IN  [i \in DOMAIN ok |-> <<ok[i], out[i].filename>>]

targets(u) == {partPath(u), outputPath(u)}

\* C26: the filenames are deduplicated after the probes and before any
\* download is launched, so that at no time two download tasks of a batch
\* have a .part path or a final path in common, even when two URLs resolve
\* to the same filename.
NoSharedTarget ==
    /\ \A u \in Res : dPc[u] # "off" => rPc \notin {"mkdir", "probe", "dedup"}
    /\ \A u, v \in Res :
          (u # v /\ dPc[u] # "off" /\ dPc[v] # "off") =>
             targets(u) \cap targets(v) = {}

\* ---- C5 -----------------------------------------------------------------
\* C5: for all length > 0 and n > 0, getChunks(length, n) partitions
\* [0, length-1] exactly (first start 0, last end length-1, each start is the
\* previous end + 1, end >= start), returns min(n, length) ranges, and any two
\* range sizes differ by at most 1.
ChunksPartition ==
    (gcArgs # <<>> /\ gcArgs[1] > 0 /\ gcArgs[2] > 0) =>
        /\ Len(gcOut) = Min(gcArgs[2], gcArgs[1])
        /\ gcOut[1][1] = 0
        /\ gcOut[Len(gcOut)][2] = gcArgs[1] - 1
        /\ \A i \in 1 .. Len(gcOut) : gcOut[i][2] >= gcOut[i][1]
        /\ \A i \in 2 .. Len(gcOut) : gcOut[i][1] = gcOut[i - 1][2] + 1
        /\ \A i, j \in 1 .. Len(gcOut) :
              chunkSizeOf(gcOut[i]) - chunkSizeOf(gcOut[j]) <= 1

\* Witness of C5: a plan of several chunks of unequal sizes, and a plan
\* clamped to the length.
ChunksPartitionWitness ==
    /\ gcArgs = <<11, 4>>
    /\ gcOut = << <<0, 2>>, <<3, 5>>, <<6, 8>>, <<9, 10>> >>

\* ---- C6 -----------------------------------------------------------------
fileEntries == {e \in DOMAIN ddEntries : ddEntries[e] = "file"}

AdmittedWithinRate ==
    rate > 0 => admitted * TicksPerSec <= rate * now + rate * TicksPerSec

\* Witness of C7: the bound is met with equality some time after the burst
\* was used up, with both callers having been admitted bytes.
AdmittedWithinRateWitness ==
    /\ rate = 3 /\ now = 1
    /\ admitted = 4
    /\ waited["c1"] > 0 /\ waited["c2"] > 0

\* ---- C8 -----------------------------------------------------------------
\* C8: whenever rate > 0, the bucket satisfies 0 <= tokens <= rate in every
\* reachable state, after newRateLimiter and after any sequence of concurrent
\* wait calls with any byte counts.
TokensWithinBucket == rate > 0 => (0 <= tokens /\ tokens <= rate)

\* ---- C9 -----------------------------------------------------------------
\* C9: with rate = 0, wait(n) returns at once for every n (no caller is ever
\* inside wait's loop) and leaves tokens and lastRefill unchanged, and a
\* rate-limited reader has handed on exactly the bytes taken from its source.
UnlimitedIsNoop ==
    /\ [](rate = 0 =>
            \A c \in Callers :
                /\ wPc[c] = "idle"
                /\ rdOut[c] = SubSeq(Source, 1, rdPos[c]))
    /\ [][rate = 0 => (tokens' = tokens /\ lastRefill' = lastRefill)]_vars

\* Witness of C9: an unlimited limiter after a direct wait call and a
\* reader that has drained its source.
UnlimitedIsNoopWitness ==
    /\ rate = 0 /\ now > 0
    /\ wN["c1"] > 1 /\ waited["c1"] = wN["c1"]
    /\ rdOut["c2"] = Source

\* ---- C27 ----------------------------------------------------------------
\* floor(elapsed_seconds * rate) of a refill step taken now.
computedRefill == ((now - lastRefill) * rate) \div TicksPerSec

\* The tokens a step of waitForTokens leaves, before its deduction.
afterRefill == tokens' + (admitted' - admitted)

refillStep == \E c \in Callers : WaitForTokens(c)

deductedFor(c) ==
    waited[c] + (IF wPc[c] = "loop" THEN wN[c] - wRemaining[c] ELSE 0)

\* wait's loop takes requests of min(remaining, rate) tokens, none above a
\* full bucket, and has deducted n tokens in all when it returns.
waitSplits ==
    /\ [][\A c \in Callers :
            (WaitForTokens(c) /\ admitted' # admitted) =>
               /\ admitted' - admitted = Min(wRemaining[c], rate)
               /\ admitted' - admitted <= rate
               /\ (wPc'[c] = "idle") <=> (wRemaining[c] <= rate)]_vars
    /\ [](rate > 0 => admitted = deductedFor("c1") + deductedFor("c2"))

waitReturns(c) == (wPc[c] = "loop") ~> (wPc[c] = "idle")

\* C28: for rate > 0 and every n >= 0, also n > rate, wait(n) returns in
\* the end when time keeps advancing and the caller keeps being scheduled;
\* it proceeds in requests of min(remaining, rate) tokens, each within a
\* full bucket, and deducts n tokens in all.
WaitReturns == waitSplits /\ \A c \in Callers : waitReturns(c)

\* The same for the rates whose refill sums stay within the integer width.
WaitReturnsBelowWrap ==
    waitSplits /\ \A c \in Callers : [](rate < 2 ^ (IntBits - 2)) => waitReturns(c)

\* wait(n) with n above the rate has returned.
WaitReturnsBelowWrapWitness ==
    \E c \in Callers :
       /\ rate = 1 /\ wN[c] = MaxWaitN /\ wPc[c] = "idle"
       /\ waited[c] = MaxWaitN

\* ---- C29 ----------------------------------------------------------------
\* Read alone moves a reader's position in its source.
readStep(c) == rdPos'[c] # rdPos[c]

\* C29: with rate > 0 a Read of a rate-limited reader returns at most rate
\* bytes whatever the size of the caller's buffer, and it calls wait(n) with
\* exactly the number n > 0 of bytes the source returned, before it hands
\* them to the caller.
ReadCappedAndCharged ==
    /\ [][\A c \in Callers :
            (rate > 0 /\ readStep(c)) =>
               LET n == rdPos'[c] - rdPos[c] IN
               /\ n <= rate
               /\ n > 0 => /\ wPc'[c] = "loop"
                           /\ wN'[c] = n /\ wRemaining'[c] = n
                           /\ rdPending'[c] = n
                           /\ rdOut'[c] = rdOut[c]]_vars
    /\ [](rate > 0 =>
            \A c \in Callers :
               /\ Len(rdOut[c]) + rdPending[c] = rdPos[c]
               /\ rdPending[c] > 0 => (wPc[c] = "loop" /\ wN[c] = rdPending[c]))
    /\ [][\A c \in Callers :
            (rate > 0 /\ rdOut'[c] # rdOut[c]) =>
               /\ wPc[c] = "loop" /\ wPc'[c] = "idle"
               /\ Len(rdOut'[c]) = Len(rdOut[c]) + wN[c]
               /\ wN[c] <= rate
               /\ waited'[c] = waited[c] + wN[c]]_vars

\* At one byte per second a reader has handed over the byte of its first
\* Read and waits for the token of the byte of its second.
ReadCappedAndChargedWitness ==
    \E c \in Callers :
       /\ rate = 1 /\ rdOut[c] = <<"s1">>
       /\ wPc[c] = "loop" /\ rdPending[c] = 1 /\ rdPos[c] = 2

\* ---- C30 ----------------------------------------------------------------
\* The body of the answer that chunk task i of resource r is copying.
taskBody(r, i) ==
    bodyOf(tStatus[r][i], content[r], chunkStart(r, i), chunkEnd(r, i))

okStatus(r, i) == tStatus[r][i] \in {"200", "206", "206short"}

\* C30: a chunk fetch succeeds only if the status is 200 or 206 and the
\* bytes written are end - start + 1; a body that is shorter or longer than
\* that (a 200 answer that ignores the range) makes the task fail at the
\* size comparison, and any other status makes it fail with nothing
\* written.
FetchChecksStatusAndSize ==
    /\ [](\A r \in Res : \A i \in Tasks(r) :
            /\ tPc[r][i] = "done" =>
                  /\ okStatus(r, i)
                  /\ tWritten[r][i] = chunkSizeOf(res[r].chunks[i])
                  /\ tWritten[r][i] = Len(taskBody(r, i))
            /\ (tPc[r][i] \notin {"off", "start"} /\ ~okStatus(r, i)) =>
                  /\ tPc[r][i] \in {"failing", "cancel", "failed"}
                  /\ tWritten[r][i] = 0)
    /\ [][\A r \in Res : \A i \in Tasks(r) :
            /\ (tPc[r][i] = "copy" /\ tPc'[r][i] # "copy"
                  /\ tWritten[r][i] = Len(taskBody(r, i))) =>
                  IF Len(taskBody(r, i)) = chunkSizeOf(res[r].chunks[i])
                  THEN tPc'[r][i] = "done" ELSE tPc'[r][i] = "failing"
            /\ (tPc[r][i] = "start" /\ tPc'[r][i] = "failing") =>
                  disk' = disk]_vars

\* A server answered 200 with the whole file to the request for a chunk:
\* the task wrote more than the chunk and failed.
FetchChecksStatusAndSizeWitness ==
    \E r \in Res : \E i \in Tasks(r) :
       /\ tStatus[r][i] = "200" /\ tPc[r][i] = "failed"
       /\ tWritten[r][i] = Len(content[r])
       /\ tWritten[r][i] > chunkSizeOf(res[r].chunks[i])

\* ---- C31 ----------------------------------------------------------------
\* Chunk task i of resource r is in flight: it has not returned and has
\* not failed yet.
inFlight(r, i) ==
    \/ tPc[r][i] = "start"
    \/ tPc[r][i] = "copy" /\ tWritten[r][i] < Len(taskBody(r, i))

\* The in-flight request or read of task i returns an error.
taskAborts(r, i) ==
    (TaskRequest(r, i) \/ TaskCopy(r, i)) /\ tPc'[r][i] = "failing"

\* The request of task i returns the error of the cancelled context.
requestCancelled(r, i) == TaskRequest(r, i) /\ tStatus'[r][i] = "cancelled"

\* C31: the first chunk task that fails cancels the derived context, so
\* that every sibling in flight aborts, and downloadChunked closes the file
\* and returns only after every chunk task has returned: no chunk task
\* writes to the file after it was closed or after the .part was deleted.
SiblingsDrainBeforeClose ==
    /\ [](\A r \in Res : \A i \in Tasks(r) :
            /\ tPc[r][i] = "failed" => (cancelled[r] /\ fetchErr[r])
            /\ (cancelled[r] /\ inFlight(r, i)) => ENABLED taskAborts(r, i)
            /\ (cancelled[r] /\ tPc[r][i] = "start")
                  <=> ENABLED requestCancelled(r, i)
            /\ tPc[r][i] \in {"start", "copy", "failing", "cancel"} =>
                  /\ dPc[r] = "chunked" /\ cPc[r] = "wait"
                  /\ fOpen[r] = 1)
    /\ [][\A r \in Res : \A i \in Tasks(r) :
            tWritten'[r][i] # tWritten[r][i] =>
               /\ cPc[r] = "wait" /\ fOpen[r] = 1 /\ fOpen'[r] = 1
               /\ disk[partPath(r)].exists]_vars

\* One task was refused by the server and cancelled its sibling, which
\* aborted before it got an answer; the file was closed after both.
SiblingsDrainBeforeCloseWitness ==
    \E r \in Res :
       /\ Len(tPc[r]) = 2 /\ cPc[r] = "ret" /\ fOpen[r] = 0
       /\ tPc[r][1] = "failed" /\ tStatus[r][1] = "reject"
       /\ tPc[r][2] = "failed" /\ tStatus[r][2] = "cancelled"

\* ---- C32 ----------------------------------------------------------------
\* download runs downloadSingle as the fallback of a chunked attempt.
inFallback(r) == dPc[r] = "single" /\ cPc[r] = "ret"

\* C32: after a chunked attempt failed for any reason (open,
\* pre-allocation, chunk fetch, rename) the .part is deleted before the
\* single-stream fallback begins, so that the fallback computes offset 0,
\* sends no Range header and does not append to bytes that the chunked
\* attempt left.
FallbackStartsClean ==
    \A r \in Res :
       inFallback(r) =>
          IF sPc[r] = "request"
          THEN ~disk[partPath(r)].exists
          ELSE ~sFound[r].exists /\ ~sRanged[r] /\ sOffset[r] = 0

\* ---- C33 ----------------------------------------------------------------
\* The single-stream GET of resource r has failed before any body was
\* copied: no answer, or an answer with a status other than 200 and 206.
getFailed(r) ==
    /\ sPc[r] \notin {"off", "request"}
    /\ sStatus[r] \notin {"200", "206", "206short"}

\* C33: when the single-stream GET fails before the body is copied,
\* downloadSingle returns an error without opening the target: a .part
\* that exists keeps its content and size, and no final file is made.
FailedGetTouchesNothing ==
    /\ [](\A r \in Res :
            getFailed(r) =>
               /\ sPc[r] = "ret" /\ sErr[r] = "err" /\ fOpen[r] = 0
               /\ disk[partPath(r)] = sFound[r])
    /\ [][\A r \in Res :
            (sPc[r] = "request" /\ getFailed(r)') => disk' = disk]_vars
    /\ [][\A r \in Res :
            (getFailed(r) /\ getFailed(r)') =>
               /\ disk' = disk
               /\ ~success'[r]]_vars

\* The server refused the GET that asked to resume an older .part of two
\* bytes: the download has reported its failure and the .part is as it was.
FailedGetTouchesNothingWitness ==
    \E r \in Res :
       /\ dPc[r] = "done" /\ ~result[r].ok
       /\ sStatus[r] = "reject" /\ sRanged[r]
       /\ disk[partPath(r)] = File(oldBytes(2))
       /\ ~disk[outputPath(r)].exists

\* ---- C34 ----------------------------------------------------------------
\* The resources of the batch whose results have arrived, in list order.
arrivedResults == selectSeq(batch, received)

\* C34: after each download result the soft disk-space check is run on the
\* admission total less the positive lengths of exactly the resources
\* whose results have arrived, in whatever order the downloads finish and
\* whether or not some lengths are unknown.
SoftCheckOnUnfinished ==
    (rPc = "collect" /\ received # {}) =>
       remainingSize =
          sumPositive(batch, res) - sumPositive(arrivedResults, res)

entriesSafe ==
    /\ [](\A i \in DOMAIN pdShown : pdShown[i] # "half")
    /\ [](\A k \in Adders :
            pdAdd[k].pc = "added" => \E i \in DOMAIN pdEntries : pdEntries[i] = k)
    /\ [][Len(pdEntries') >= Len(pdEntries)]_vars

\* finish returns only after the loop has exited, and nothing is rendered
\* after that.
finishWaits ==
    /\ [](pdFinish = "returned" => (pdLoop = "exited" /\ pdDone))
    /\ [][pdFinish = "returned" => pdShown' = pdShown]_vars

\* C36: after finish is called the render loop performs exactly one more
\* render and exits, finish returns only after the loop has exited, and no
\* render happens after finish has returned; entries added while a render
\* runs are never lost nor read half-written.
StopRendersExactlyOnce ==
    /\ [](pdAfter <= 1)
    /\ [](pdLoop \in {"closing", "exited"} => pdAfter = 1)
    /\ finishWaits
    /\ entriesSafe

\* The same with at least one render after the stop, the last of them the
\* one of the stop case.
StopRendersAtLeastOnce ==
    /\ [](pdLoop \in {"closing", "exited"} => pdAfter >= 1)
    /\ [][(pdLoop = "renderStop" /\ pdLoop' # "renderStop") =>
             (pdStop /\ pdShown' = pdEntries /\ pdLoop' = "closing")]_vars
    /\ finishWaits
    /\ entriesSafe

\* ---- C37 ----------------------------------------------------------------
\* The handles of the .part of r that the code at this point holds open.
handlesHeld(r) ==
    (IF cPc[r] \in {"alloc", "wait"} THEN 1 ELSE 0)
    + (IF sPc[r] \in {"copy", "rename"} THEN 1 ELSE 0)

\* C37: both downloaders release the handle of the target file on every
\* exit path: a handle is open only between a successful open and the
\* return of the downloader that opened it, none is open once
\* downloadChunked or downloadSingle has returned, and downloadChunked has
\* closed the file when it renames the .part.
HandleReleasedOnEveryPath ==
    \A r \in Res :
        /\ fOpen[r] = handlesHeld(r)
        /\ cPc[r] = "rename" => fOpen[r] = 0
        /\ (cPc[r] = "ret" /\ sPc[r] \in {"off", "ret"}) => fOpen[r] = 0
        /\ dPc[r] \in {"send", "done"} => fOpen[r] = 0

\* A chunk failed and cancelled the siblings, the fallback's copy failed
\* after some bytes, and no handle is left.
HandleReleasedOnEveryPathWitness ==
    \E r \in Res :
        /\ dPc[r] = "done" /\ fetchErr[r] /\ cancelled[r]
        /\ sErr[r] = "err" /\ sWritten[r] > 0
        /\ fOpen[r] = 0

\* ---- C38 ----------------------------------------------------------------
\* The offsets of the .part that task i of r has written: the OffsetWriter
\* puts byte k of the body at start + k.
writtenOffsets(r, i) ==
    {chunkStart(r, i) + k : k \in 0 .. tWritten[r][i] - 1}

\* C38: a chunk task never writes a byte of the shared .part outside its
\* planned range [start, end], also when the answer to its ranged GET
\* carries more bytes than the range (a 200 with the whole body).
ChunkWritesInsideItsRange ==
    \A r \in Res : \A i \in Tasks(r) :
        tPc[r][i] # "off" =>
            writtenOffsets(r, i) \subseteq chunkStart(r, i) .. chunkEnd(r, i)

\* ---- C39 ----------------------------------------------------------------
\* path names a direct child of dir: dir, one separator, and one element
\* that is neither "." nor "..".
directChild(path, dir) ==
    /\ Len(path) > Len(dir) + 1
    /\ SubSeq(path, 1, Len(dir) + 1) = dir \o <<"/">>
    /\ LET name == SubSeq(path, Len(dir) + 2, Len(path))
       IN  /\ \A i \in DOMAIN name : name[i] # "/"
           /\ name \notin {<<".">>, <<".", ".">>}

\* C39: for every probed resource the final path and the .part path are
\* direct children of the output directory, whatever filename the
\* Content-Disposition header or the URL's path gave.
PathsInsideOutputDir ==
    probeReturned =>
        \A dir \in OutputDirs :
            LET final == filepathJoin(dir, ret.r.filename)
            IN  /\ directChild(final, dir)
                /\ directChild(final \o partSuffix, dir)

\* ---- C40 ----------------------------------------------------------------
\* Every chunk task of r has returned without an error.
allChunksDone(r) == Tasks(r) # {} /\ \A i \in Tasks(r) : tPc[r][i] = "done"

\* The step renames the .part of r to its final path.
renamed(r) ==
    /\ disk[partPath(r)].exists
    /\ disk'[outputPath(r)] = disk[partPath(r)]
    /\ ~disk'[partPath(r)].exists

\* C40: downloadChunked returns true exactly when every chunk task
\* succeeded and the rename to the final path succeeded; the failure that a
\* task recorded stays recorded whatever its siblings do afterwards, so that
\* a download with a failed chunk is never renamed to its final path.
ChunkedTrueIffAllSucceeded ==
    /\ [][\A r \in Res :
            (cPc[r] # "ret" /\ cPc'[r] = "ret") =>
               (cRet'[r] <=> (cPc[r] = "rename" /\ allChunksDone(r) /\ renamed(r)))]_vars
    /\ [][\A r \in Res : fetchErr[r] => fetchErr'[r]]_vars
    /\ [](\A r \in Res :
            /\ \A i \in Tasks(r) : tPc[r][i] \in {"cancel", "failed"} => fetchErr[r]
            /\ cPc[r] = "rename" => (~fetchErr[r] /\ allChunksDone(r))
            /\ (cPc[r] = "ret" /\ cRet[r]) => (~fetchErr[r] /\ allChunksDone(r)))

\* One task failed, a sibling finished its chunk, and downloadChunked
\* returned false.
ChunkedTrueIffAllSucceededWitness ==
    \E r \in Res :
        /\ cPc[r] = "ret" /\ ~cRet[r] /\ fetchErr[r]
        /\ \E i, j \in Tasks(r) : tPc[r][i] = "failed" /\ tPc[r][j] = "done"

====
